---- MODULE Spec2Model ----
(***************************************************************************)
(* Geohash codec of the memory-ingestion extension (pkg/utils/geohash.go). *)
(*                                                                         *)
(* Encode is modelled step by step (one action per pass of its inner loop, *)
(* one per finished character); Decode and BoundingBox are single calls.   *)
(*                                                                         *)
(* float64 values are modelled exactly as fixed-point numbers: a number is *)
(* the record [h, l] standing for (h * LimbBase + l) units of 2^-40        *)
(* degree, 0 <= l < LimbBase.  Every bound of a range the code computes is *)
(* k * 45 / 2^j with few significant bits, so float64 adds and halves them *)
(* without rounding and the fixed-point arithmetic agrees with it for      *)
(* cells of up to 16 characters.  NaN is a value of its own.               *)
(*                                                                         *)
(* A Go string is modelled as the sequence of its runes (code points).     *)
(***************************************************************************)
EXTENDS Integers, Sequences, FiniteSets, TLC

\* ---------------------------------------------------------------- float64

LimbBase == 2^20

F(h, l) == [h |-> h, l |-> l]

\* a whole number of degrees
Deg(d) == F(d * LimbBase, 0)

NaN == F(0, -1)

IsNaN(a) == a.l = -1

\* a + b
Add(a, b) ==
    LET s == a.l + b.l
    IN  F(a.h + b.h + (s \div LimbBase), s % LimbBase)

\* a - b
Sub(a, b) ==
    LET d == a.l - b.l
    IN  F(a.h - b.h + (d \div LimbBase), d % LimbBase)

\* a / 2
Half(a) == F(a.h \div 2, ((a.h % 2) * LimbBase + a.l) \div 2)

\* a > b; false when either is NaN
Gt(a, b) ==
    /\ ~IsNaN(a)
    /\ ~IsNaN(b)
    /\ \/ a.h > b.h
       \/ a.h = b.h /\ a.l > b.l

\* a < b; false when either is NaN
Lt(a, b) == Gt(b, a)

\* ---------------------------------------------------------------- strings

\* code points of the characters used to write strings below
Ascii ==
    "0" :> 48 @@ "1" :> 49 @@ "2" :> 50 @@ "3" :> 51 @@ "4" :> 52 @@
    "5" :> 53 @@ "6" :> 54 @@ "7" :> 55 @@ "8" :> 56 @@ "9" :> 57 @@
    "a" :> 97 @@ "b" :> 98 @@ "c" :> 99 @@ "d" :> 100 @@ "e" :> 101 @@
    "f" :> 102 @@ "g" :> 103 @@ "h" :> 104 @@ "i" :> 105 @@ "j" :> 106 @@
    "k" :> 107 @@ "l" :> 108 @@ "m" :> 109 @@ "n" :> 110 @@ "o" :> 111 @@
    "p" :> 112 @@ "q" :> 113 @@ "r" :> 114 @@ "s" :> 115 @@ "t" :> 116 @@
    "u" :> 117 @@ "v" :> 118 @@ "w" :> 119 @@ "x" :> 120 @@ "y" :> 121 @@
    "z" :> 122 @@ "U" :> 85

\* the string written as a sequence of one-character strings
Str(s) == [k \in 1..Len(s) |-> Ascii[s[k]]]

\* "0123456789bcdefghjkmnpqrstuvwxyz"
base32 ==
    <<48, 49, 50, 51, 52, 53, 54, 55, 56, 57, 98, 99, 100, 101, 102, 103,
      104, 106, 107, 109, 110, 112, 113, 114, 115, 116, 117, 118, 119, 120,
      121, 122>>

DefaultPrecision == 8

MinPrecision == 1

MaxPrecision == 12

MaxLatDeg == 90

MaxLonDeg == 180

Nil == "nil"

ErrInvalidLatitude == "latitude must be between -90 and 90"

ErrInvalidLongitude == "longitude must be between -180 and 180"

ErrInvalidPrecision == "precision must be between 1 and 12"

ErrEmpty == "geohash cannot be empty"

ErrInvalidChar == "invalid character in geohash"

\* ----------------------------------------------------------------- Encode

\* the three checks at the head of Encode, in their order
EncodeValidate(la, lo, p) ==
    IF Lt(la, Deg(-MaxLatDeg)) \/ Gt(la, Deg(MaxLatDeg)) THEN ErrInvalidLatitude
    ELSE IF Lt(lo, Deg(-MaxLonDeg)) \/ Gt(lo, Deg(MaxLonDeg)) THEN ErrInvalidLongitude
    ELSE IF p < MinPrecision \/ p > MaxPrecision THEN ErrInvalidPrecision
    ELSE Nil

\* EncodeInit with the first bit given to latitude
EncodeInitLatFirst(p) ==
    [latRange |-> <<Deg(-MaxLatDeg), Deg(MaxLatDeg)>>,
     lonRange |-> <<Deg(-MaxLonDeg), Deg(MaxLonDeg)>>,
     geohash  |-> [k \in 1..p |-> 0],
     bits     |-> 0,
     ch       |-> 0,
     even     |-> FALSE,
     i        |-> 0]

\* Encode's locals before its loop
EncodeInit(p) ==
    [latRange |-> <<Deg(-MaxLatDeg), Deg(MaxLatDeg)>>,
     lonRange |-> <<Deg(-MaxLonDeg), Deg(MaxLonDeg)>>,
     geohash  |-> [k \in 1..p |-> 0],
     bits     |-> 0,
     ch       |-> 0,
     even     |-> TRUE,
     i        |-> 0]

\* a | b on 5-bit values
BitOr(a, b) ==
    LET bit(x, k) == (x \div 2^k) % 2
        or(k)     == IF bit(a, k) = 1 \/ bit(b, k) = 1 THEN 2^k ELSE 0
    IN  or(0) + or(1) + or(2) + or(3) + or(4)

\* (r[0] + r[1]) / 2
Mid(r) == Half(Add(r[1], r[2]))

\* UpperHalf with coord >= mid
UpperHalfOrEqual(coord, mid) == Gt(coord, mid) \/ coord = mid

\* UpperHalf with coord < mid
UpperHalfBelow(coord, mid) == Lt(coord, mid)

\* whether the coordinate takes the upper half of the range: coord > mid
UpperHalf(coord, mid) == Gt(coord, mid)

\* EncodeBitStep with the bit stored at 1 << bits, least significant first
EncodeBitStepLsbFirst(la, lo, e) ==
    IF e.even
    THEN LET mid == Mid(e.lonRange)
         IN  IF UpperHalf(lo, mid)
             THEN [e EXCEPT !.ch = BitOr(e.ch, 2^(e.bits)),
                            !.lonRange = <<mid, e.lonRange[2]>>,
                            !.even = ~e.even,
                            !.bits = e.bits + 1]
             ELSE [e EXCEPT !.lonRange = <<e.lonRange[1], mid>>,
                            !.even = ~e.even,
                            !.bits = e.bits + 1]
    ELSE LET mid == Mid(e.latRange)
         IN  IF UpperHalf(la, mid)
             THEN [e EXCEPT !.ch = BitOr(e.ch, 2^(e.bits)),
                            !.latRange = <<mid, e.latRange[2]>>,
                            !.even = ~e.even,
                            !.bits = e.bits + 1]
             ELSE [e EXCEPT !.latRange = <<e.latRange[1], mid>>,
                            !.even = ~e.even,
                            !.bits = e.bits + 1]

\* one pass of the inner loop `for bits < 5`
EncodeBitStep(la, lo, e) ==
    IF e.even
    THEN LET mid == Mid(e.lonRange)
         IN  IF UpperHalf(lo, mid)
             THEN [e EXCEPT !.ch = BitOr(e.ch, 2^(4 - e.bits)),
                            !.lonRange = <<mid, e.lonRange[2]>>,
                            !.even = ~e.even,
                            !.bits = e.bits + 1]
             ELSE [e EXCEPT !.lonRange = <<e.lonRange[1], mid>>,
                            !.even = ~e.even,
                            !.bits = e.bits + 1]
    ELSE LET mid == Mid(e.latRange)
         IN  IF UpperHalf(la, mid)
             THEN [e EXCEPT !.ch = BitOr(e.ch, 2^(4 - e.bits)),
                            !.latRange = <<mid, e.latRange[2]>>,
                            !.even = ~e.even,
                            !.bits = e.bits + 1]
             ELSE [e EXCEPT !.latRange = <<e.latRange[1], mid>>,
                            !.even = ~e.even,
                            !.bits = e.bits + 1]

\* EncodeCharStep storing the digit '0' + ch instead of base32[ch]
EncodeCharStepDigit(e) ==
    [e EXCEPT !.geohash = [e.geohash EXCEPT ![e.i + 1] = 48 + e.ch],
              !.bits = 0,
              !.ch = 0,
              !.i = e.i + 1]

\* EncodeCharStep filling geohash from its end
EncodeCharStepReversed(e) ==
    [e EXCEPT !.geohash = [e.geohash EXCEPT ![Len(e.geohash) - e.i] = base32[e.ch + 1]],
              !.bits = 0,
              !.ch = 0,
              !.i = e.i + 1]

\* EncodeCharStep without the reset of ch
EncodeCharStepNoReset(e) ==
    [e EXCEPT !.geohash = [e.geohash EXCEPT ![e.i + 1] = base32[e.ch + 1]],
              !.bits = 0,
              !.i = e.i + 1]

\* the tail of the outer loop's body: geohash[i] = base32[ch], the resets, i++
EncodeCharStep(e) ==
    [e EXCEPT !.geohash = [e.geohash EXCEPT ![e.i + 1] = base32[e.ch + 1]],
              !.bits = 0,
              !.ch = 0,
              !.i = e.i + 1]

RECURSIVE EncodeLoop(_, _, _, _)
\* the outer loop `for i < precision`, run to its end
EncodeLoop(la, lo, p, e) ==
    IF e.i >= p THEN e.geohash
    ELSE IF e.bits < 5 THEN EncodeLoop(la, lo, p, EncodeBitStep(la, lo, e))
    ELSE EncodeLoop(la, lo, p, EncodeCharStep(e))

\* Encode(lat, lon, precision) as a function of its arguments
Encode(la, lo, p) ==
    LET err == EncodeValidate(la, lo, p)
    IN  IF err # Nil
        THEN [str |-> <<>>, err |-> err]
        ELSE [str |-> EncodeLoop(la, lo, p, EncodeInit(p)), err |-> Nil]

\* ----------------------------------------------------------------- Decode

\* byte(char): the low eight bits of the rune
Byte(r) == r % 256

\* index of a byte in base32 (from 0), or -1
indexInBase32(char) ==
    IF \E k \in 1..Len(base32) : base32[k] = char
    THEN (CHOOSE k \in 1..Len(base32) :
              /\ base32[k] = char
              /\ \A j \in 1..(k - 1) : base32[j] # char) - 1
    ELSE -1

\* the ranges and the axis flag Decode and BoundingBox start from; err is the
\* error of the early return out of the loop over the runes, if it was taken
WalkInit ==
    [latRange |-> <<Deg(-MaxLatDeg), Deg(MaxLatDeg)>>,
     lonRange |-> <<Deg(-MaxLonDeg), Deg(MaxLonDeg)>>,
     even     |-> TRUE,
     err      |-> Nil]

\* DecodeBitStep with the two halves exchanged
DecodeBitStepInverted(w, bit) ==
    IF w.even
    THEN LET mid == Mid(w.lonRange)
         IN  IF bit = 0
             THEN [w EXCEPT !.lonRange = <<mid, w.lonRange[2]>>, !.even = ~w.even]
             ELSE [w EXCEPT !.lonRange = <<w.lonRange[1], mid>>, !.even = ~w.even]
    ELSE LET mid == Mid(w.latRange)
         IN  IF bit = 0
             THEN [w EXCEPT !.latRange = <<mid, w.latRange[2]>>, !.even = ~w.even]
             ELSE [w EXCEPT !.latRange = <<w.latRange[1], mid>>, !.even = ~w.even]

\* Decode: the body of `for i := 4; i >= 0; i--` for one bit
DecodeBitStep(w, bit) ==
    IF w.even
    THEN LET mid == Mid(w.lonRange)
         IN  IF bit = 1
             THEN [w EXCEPT !.lonRange = <<mid, w.lonRange[2]>>, !.even = ~w.even]
             ELSE [w EXCEPT !.lonRange = <<w.lonRange[1], mid>>, !.even = ~w.even]
    ELSE LET mid == Mid(w.latRange)
         IN  IF bit = 1
             THEN [w EXCEPT !.latRange = <<mid, w.latRange[2]>>, !.even = ~w.even]
             ELSE [w EXCEPT !.latRange = <<w.latRange[1], mid>>, !.even = ~w.even]

RECURSIVE DecodeBits(_, _, _)
\* Decode: the five bits of one character, from bit i down to bit 0
DecodeBits(w, idx, i) ==
    IF i < 0 THEN w
    ELSE DecodeBits(DecodeBitStep(w, (idx \div 2^i) % 2), idx, i - 1)

RECURSIVE DecodeWalk(_, _)
\* Decode: `for _, char := range geohash` over the first k runes; an invalid
\* rune ends the walk with the error
DecodeWalk(g, k) ==
    IF k = 0 THEN WalkInit
    ELSE LET w   == DecodeWalk(g, k - 1)
             idx == indexInBase32(Byte(g[k]))
         IN  IF w.err # Nil THEN w
             ELSE IF idx = -1 THEN [w EXCEPT !.err = ErrInvalidChar]
             ELSE DecodeBits(w, idx, 4)

\* Decode(geohash)
Decode(g) ==
    IF Len(g) = 0
    THEN [lat |-> Deg(0), lon |-> Deg(0), err |-> ErrEmpty]
    ELSE LET w == DecodeWalk(g, Len(g))
         IN  IF w.err # Nil
             THEN [lat |-> Deg(0), lon |-> Deg(0), err |-> w.err]
             ELSE [lat |-> Mid(w.latRange), lon |-> Mid(w.lonRange), err |-> Nil]

\* ------------------------------------------------------------ BoundingBox

\* the zero values BoundingBox returns beside an error
ZeroBox(err) ==
    [minLat |-> Deg(0), maxLat |-> Deg(0), minLon |-> Deg(0), maxLon |-> Deg(0),
     err |-> err]

\* BoundingBoxBitStep without the else branches: a 0 bit narrows nothing
BoundingBoxBitStepNoElse(w, bit) ==
    IF w.even
    THEN LET mid == Mid(w.lonRange)
         IN  IF bit = 1
             THEN [w EXCEPT !.lonRange = <<mid, w.lonRange[2]>>, !.even = ~w.even]
             ELSE [w EXCEPT !.even = ~w.even]
    ELSE LET mid == Mid(w.latRange)
         IN  IF bit = 1
             THEN [w EXCEPT !.latRange = <<mid, w.latRange[2]>>, !.even = ~w.even]
             ELSE [w EXCEPT !.even = ~w.even]

\* BoundingBox: the body of `for i := 4; i >= 0; i--` for one bit
BoundingBoxBitStep(w, bit) ==
    IF w.even
    THEN LET mid == Mid(w.lonRange)
         IN  IF bit = 1
             THEN [w EXCEPT !.lonRange = <<mid, w.lonRange[2]>>, !.even = ~w.even]
             ELSE [w EXCEPT !.lonRange = <<w.lonRange[1], mid>>, !.even = ~w.even]
    ELSE LET mid == Mid(w.latRange)
         IN  IF bit = 1
             THEN [w EXCEPT !.latRange = <<mid, w.latRange[2]>>, !.even = ~w.even]
             ELSE [w EXCEPT !.latRange = <<w.latRange[1], mid>>, !.even = ~w.even]

RECURSIVE BoundingBoxBits(_, _, _)
\* BoundingBox: the five bits of one character, from bit i down to bit 0
BoundingBoxBits(w, idx, i) ==
    IF i < 0 THEN w
    ELSE BoundingBoxBits(BoundingBoxBitStep(w, (idx \div 2^i) % 2), idx, i - 1)

RECURSIVE BoundingBoxWalk(_, _)
\* BoundingBox: `for _, char := range geohash` over the first k runes; an
\* invalid rune ends the walk with the error
BoundingBoxWalk(g, k) ==
    IF k = 0 THEN WalkInit
    ELSE LET w   == BoundingBoxWalk(g, k - 1)
             idx == indexInBase32(Byte(g[k]))
         IN  IF w.err # Nil THEN w
             ELSE IF idx = -1 THEN [w EXCEPT !.err = ErrInvalidChar]
             ELSE BoundingBoxBits(w, idx, 4)

\* BoundingBox(geohash)
BoundingBox(g) ==
    IF Len(g) = 0
    THEN ZeroBox(ErrEmpty)
    ELSE LET w == BoundingBoxWalk(g, Len(g))
         IN  IF w.err # Nil
             THEN ZeroBox(w.err)
             ELSE [minLat |-> w.latRange[1], maxLat |-> w.latRange[2],
                   minLon |-> w.lonRange[1], maxLon |-> w.lonRange[2],
                   err |-> Nil]

\* ---------------------------------------------------------------- Neighbors

\* len(s): the bytes of the UTF-8 encoding of the runes of s
Utf8Len(s) ==
    Len(s) + Cardinality({k \in 1..Len(s) : s[k] >= 128})
           + Cardinality({k \in 1..Len(s) : s[k] >= 2048})
           + Cardinality({k \in 1..Len(s) : s[k] >= 65536})

\* Neighbors encoding at the default precision instead of the length
NeighborsPrecisionDefault(g) == DefaultPrecision

\* precision := len(geohash)
NeighborsPrecision(g) == Utf8Len(g)

\* NeighborPoints with South before North
NeighborPointsSouthFirst(la, lo, latStep, lonStep) ==
    << [lat |-> Sub(la, latStep), lon |-> lo],
       [lat |-> Add(la, latStep), lon |-> lo],
       [lat |-> la, lon |-> Add(lo, lonStep)],
       [lat |-> la, lon |-> Sub(lo, lonStep)],
       [lat |-> Add(la, latStep), lon |-> Add(lo, lonStep)],
       [lat |-> Add(la, latStep), lon |-> Sub(lo, lonStep)],
       [lat |-> Sub(la, latStep), lon |-> Add(lo, lonStep)],
       [lat |-> Sub(la, latStep), lon |-> Sub(lo, lonStep)] >>

\* the points Neighbors encodes, in its order: North, South, East, West,
\* Northeast, Northwest, Southeast, Southwest
NeighborPoints(la, lo, latStep, lonStep) ==
    << [lat |-> Add(la, latStep), lon |-> lo],
       [lat |-> Sub(la, latStep), lon |-> lo],
       [lat |-> la, lon |-> Add(lo, lonStep)],
       [lat |-> la, lon |-> Sub(lo, lonStep)],
       [lat |-> Add(la, latStep), lon |-> Add(lo, lonStep)],
       [lat |-> Add(la, latStep), lon |-> Sub(lo, lonStep)],
       [lat |-> Sub(la, latStep), lon |-> Add(lo, lonStep)],
       [lat |-> Sub(la, latStep), lon |-> Sub(lo, lonStep)] >>

\* the eight Encode calls; the strings of those that return no error are
\* appended in order
NeighborsAppend(pts, p) ==
    LET e     == [k \in 1..Len(pts) |-> Encode(pts[k].lat, pts[k].lon, p)]
        ok(x) == x.err = Nil
        kept  == SelectSeq(e, ok)
    IN  [k \in 1..Len(kept) |-> kept[k].str]

\* Neighbors(geohash); a nil slice is the empty sequence
Neighbors(g) ==
    IF Utf8Len(g) = 0
    THEN [neighbors |-> <<>>, err |-> ErrEmpty]
    ELSE LET d == Decode(g)
         IN  IF d.err # Nil
             THEN [neighbors |-> <<>>, err |-> d.err]
             ELSE LET bb == BoundingBox(g)
                  IN  IF bb.err # Nil
                      THEN [neighbors |-> <<>>, err |-> bb.err]
                      ELSE LET latStep == Sub(bb.maxLat, bb.minLat)
                               lonStep == Sub(bb.maxLon, bb.minLon)
                           IN  [neighbors |->
                                    NeighborsAppend(
                                        NeighborPoints(d.lat, d.lon, latStep, lonStep),
                                        NeighborsPrecision(g)),
                                err |-> Nil]

\* ----------------------------------------------------------------- Distance

\* a number of kilometres: k + u/10^6, 0 <= u < 10^6; u = -1 is NaN
Km(k, u) == [k |-> k, u |-> u]

NaNKm == Km(0, -1)

\* a >= b, for kilometres; false when either is NaN
GeKm(a, b) ==
    /\ a.u # -1
    /\ b.u # -1
    /\ \/ a.k > b.k
       \/ a.k = b.k /\ a.u >= b.u

GtKm(a, b) == GeKm(a, b) /\ a # b

\* -------------------------------------------------- float64 in the formula

\* a float64 of the haversine formula is kept to 28 binary places: the
\* integer n stands for n * 2^-28; QNaN stands for NaN. The products are cut
\* where float64 rounds, so the sum a of haversineDistance passes 1 for
\* antipodal points as it does in float64, though not for the same ones
QOne == 268435456

QNaN == -2147483647

\* the 14 low binary places are one limb
QBase == 16384

\* math.Pi, and its half and quarter
QPi == 843314857

QHalfPi == 421657428

QQuarterPi == 210828714

\* x * y, for |x| <= 2 and |y| <= 2, cut to 28 places
QMul(x, y) ==
    LET ax == IF x < 0 THEN -x ELSE x
        ay == IF y < 0 THEN -y ELSE y
        xh == ax \div QBase
        xl == ax % QBase
        yh == ay \div QBase
        yl == ay % QBase
        t  == xh * yh + (xh * yl + xl * yh + (xl * yl) \div QBase) \div QBase
    IN  IF (x < 0) = (y < 0) THEN t ELSE -t

RECURSIVE QDivBits(_, _, _, _)
\* the largest q + m * bit (m < 2, down to the last place) with q * x <= y
QDivBits(y, x, q, bit) ==
    IF bit = 0 THEN q
    ELSE IF QMul(q + bit, x) <= y
    THEN QDivBits(y, x, q + bit, bit \div 2)
    ELSE QDivBits(y, x, q, bit \div 2)

\* y / x for 0 <= y <= x <= 2 and x > 0
QDiv(y, x) == IF y = x THEN QOne ELSE QDivBits(y, x, 0, QOne \div 2)

\* s * s <= a, exactly, for 0 <= s <= 1
SquareAtMost(s, a) ==
    LET sh == s \div QBase
        sl == s % QBase
        v  == 2 * sh * sl + (sl * sl) \div QBase
        t  == sh * sh + v \div QBase
    IN  t < a \/ (t = a /\ v % QBase = 0 /\ (sl * sl) % QBase = 0)

RECURSIVE SqrtBits(_, _, _)
\* the largest r + m * bit (m < 2, down to the last place) whose square is
\* at most a
SqrtBits(a, r, bit) ==
    IF bit = 0 THEN r
    ELSE IF SquareAtMost(r + bit, a)
    THEN SqrtBits(a, r + bit, bit \div 2)
    ELSE SqrtBits(a, r, bit \div 2)

\* math.Sqrt(a) for a <= 1: NaN for NaN and for a negative number
Sqrt(a) ==
    IF a = QNaN \/ a < 0 THEN QNaN
    ELSE IF a = QOne THEN QOne
    ELSE SqrtBits(a, 0, QOne \div 2)

RECURSIVE SinSeries(_, _)
\* 1 - x2/(2k(2k+1)) * (1 - x2/((2k+2)(2k+3)) * ...): sin x / x
SinSeries(x2, k) ==
    IF k > 7 THEN QOne
    ELSE LET rest == SinSeries(x2, k + 1)
         IN  QOne - QMul(x2, rest) \div (2 * k * (2 * k + 1))

RECURSIVE CosSeries(_, _)
\* 1 - x2/((2k-1)2k) * (1 - x2/((2k+1)(2k+2)) * ...): cos x
CosSeries(x2, k) ==
    IF k > 7 THEN QOne
    ELSE LET rest == CosSeries(x2, k + 1)
         IN  QOne - QMul(x2, rest) \div ((2 * k - 1) * 2 * k)

\* sin and cos of 0 <= x <= pi/4
SinK(x) == QMul(x, SinSeries(QMul(x, x), 1))

CosK(x) == CosSeries(QMul(x, x), 1)

\* sin and cos of 0 <= x <= pi/2
SinQ(x) == IF x > QQuarterPi THEN CosK(QHalfPi - x) ELSE SinK(x)

CosQ(x) == IF x > QQuarterPi THEN SinK(QHalfPi - x) ELSE CosK(x)

\* math.Sin(x) for |x| <= pi
Sin(x) ==
    LET ax == IF x < 0 THEN -x ELSE x
        s  == IF ax > QHalfPi THEN SinQ(QPi - ax) ELSE SinQ(ax)
    IN  IF x < 0 THEN -s ELSE s

\* math.Cos(x) for |x| <= pi
Cos(x) ==
    LET ax == IF x < 0 THEN -x ELSE x
    IN  IF ax > QHalfPi THEN -CosQ(QPi - ax) ELSE CosQ(ax)

\* tan(pi/8)
QTanEighthPi == 111189606

RECURSIVE AtanSeries(_, _)
\* 1/k - t2 * (1/(k+2) - t2 * ...): atan t / t
AtanSeries(t2, k) ==
    IF k > 27 THEN 0
    ELSE LET rest == AtanSeries(t2, k + 2)
         IN  QOne \div k - QMul(t2, rest)

\* atan t for 0 <= t <= tan(pi/8)
AtanK(t) == QMul(t, AtanSeries(QMul(t, t), 1))

\* atan q for 0 <= q <= 1
Atan(q) ==
    IF q > QTanEighthPi
    THEN QQuarterPi - AtanK(QDiv(QOne - q, QOne + q))
    ELSE AtanK(q)

\* math.Atan2(y, x) for y >= 0 and x >= 0, not both 0, as Sqrt returns them
Atan2(y, x) ==
    IF y = QNaN \/ x = QNaN THEN QNaN
    ELSE IF y <= x THEN Atan(QDiv(y, x))
    ELSE QHalfPi - Atan(QDiv(x, y))

\* pi/180 * 64
QDegToRad64 == 299845282

\* degToRad(deg) for a difference or a value of degrees, |deg| < 458: the
\* high limb of the degrees is deg/256 to 28 places
degToRad(deg) == 4 * QMul(deg.h, QDegToRad64)

earthRadiusKm == 6371

\* earthRadiusKm * c as kilometres, for 0 <= c < 8
RadiusTimes(c) ==
    IF c = QNaN THEN NaNKm
    ELSE LET ch == c \div QBase
             cl == c % QBase
             t  == earthRadiusKm * ch + (earthRadiusKm * cl) \div QBase
         IN  Km(t \div QBase, ((t % QBase) * 15625) \div 256)

\* haversineDistance(lat1, lon1, lat2, lon2)
haversineDistance(lat1, lon1, lat2, lon2) ==
    LET dLat    == degToRad(Sub(lat2, lat1))
        dLon    == degToRad(Sub(lon2, lon1))
        lat1Rad == degToRad(lat1)
        lat2Rad == degToRad(lat2)
        a       == QMul(Sin(dLat \div 2), Sin(dLat \div 2))
                   + QMul(QMul(QMul(Sin(dLon \div 2), Sin(dLon \div 2)),
                               Cos(lat1Rad)),
                          Cos(lat2Rad))
        sa      == Sqrt(a)
        sb      == Sqrt(QOne - a)
        c       == IF sa = QNaN \/ sb = QNaN THEN QNaN ELSE 2 * Atan2(sa, sb)
    IN  RadiusTimes(c)

\* Distance decoding the second cell first
DistanceSecondFirst(geohash1, geohash2) ==
    LET d2 == Decode(geohash2)
    IN  IF d2.err # Nil
        THEN [km |-> Km(0, 0), err |-> d2.err]
        ELSE LET d1 == Decode(geohash1)
             IN  IF d1.err # Nil
                 THEN [km |-> Km(0, 0), err |-> d1.err]
                 ELSE [km |-> haversineDistance(d1.lat, d1.lon, d2.lat, d2.lon),
                       err |-> Nil]

\* Distance(geohash1, geohash2)
Distance(geohash1, geohash2) ==
    LET d1 == Decode(geohash1)
    IN  IF d1.err # Nil
        THEN [km |-> Km(0, 0), err |-> d1.err]
        ELSE LET d2 == Decode(geohash2)
             IN  IF d2.err # Nil
                 THEN [km |-> Km(0, 0), err |-> d2.err]
                 ELSE [km |-> haversineDistance(d1.lat, d1.lon, d2.lat, d2.lon),
                       err |-> Nil]

\* ------------------------------------------------------- PrecisionForRadius

\* the table of PrecisionForRadius: precision and cell size at the equator
precisions ==
    << [precision |-> 1,  sizeKm |-> Km(5000, 0)],
       [precision |-> 2,  sizeKm |-> Km(1250, 0)],
       [precision |-> 3,  sizeKm |-> Km(156, 0)],
       [precision |-> 4,  sizeKm |-> Km(39, 0)],
       [precision |-> 5,  sizeKm |-> Km(4, 900000)],
       [precision |-> 6,  sizeKm |-> Km(1, 200000)],
       [precision |-> 7,  sizeKm |-> Km(0, 150000)],
       [precision |-> 8,  sizeKm |-> Km(0, 38000)],
       [precision |-> 9,  sizeKm |-> Km(0, 4700)],
       [precision |-> 10, sizeKm |-> Km(0, 1200)],
       [precision |-> 11, sizeKm |-> Km(0, 150)],
       [precision |-> 12, sizeKm |-> Km(0, 37)] >>

\* the scan of the table with > in place of >=
PrecisionForRadiusStrict(radiusKm) ==
    LET hit == {i \in 1..Len(precisions) : GtKm(radiusKm, precisions[i].sizeKm)}
    IN  IF hit = {} THEN 12
        ELSE precisions[CHOOSE i \in hit : \A j \in hit : i <= j].precision

\* the scan of the table returning the last entry that qualifies
PrecisionForRadiusLast(radiusKm) ==
    LET hit == {i \in 1..Len(precisions) : GeKm(radiusKm, precisions[i].sizeKm)}
    IN  IF hit = {} THEN 12
        ELSE precisions[CHOOSE i \in hit : \A j \in hit : i >= j].precision

\* PrecisionForRadius(radiusKm): the loop returns at the first entry of the
\* table with radiusKm >= sizeKm
PrecisionForRadius(radiusKm) ==
    LET hit == {i \in 1..Len(precisions) : GeKm(radiusKm, precisions[i].sizeKm)}
    IN  IF hit = {} THEN 12
        ELSE precisions[CHOOSE i \in hit : \A j \in hit : i <= j].precision

\* ------------------------------------------------------- LocationEnricher

\* the digits, for the decimal numerals
Digits == <<"0", "1", "2", "3", "4", "5", "6", "7", "8", "9">>

\* the numeral of n >= 0 with at least `width` digits, as its characters
RECURSIVE Numeral(_, _)
Numeral(n, width) ==
    IF n < 10 /\ width <= 1
    THEN <<Digits[n + 1]>>
    ELSE Append(Numeral(n \div 10, width - 1), Digits[(n % 10) + 1])

\* |x| as the limbs [h, l] of a number that is not NaN
AbsLimbs(x) ==
    IF x.h >= 0 THEN x
    ELSE IF x.l = 0 THEN F(-x.h, 0)
    ELSE F(-x.h - 1, LimbBase - x.l)

\* |x| * 10^6 rounded to the nearest integer, an exact tie to the even one.
\* |x| * 10^6 is n * 15625 / 2^34 for the n = h * 2^20 + l units of |x|; the
\* product is formed in limbs of 14 and 10 bits.
Micros(x) ==
    LET a   == AbsLimbs(x)
        h1  == a.h \div 16384
        h0  == a.h % 16384
        l1  == a.l \div 1024
        l0  == a.l % 1024
        pA  == h0 * 15625
        pB  == l1 * 15625
        pC  == l0 * 15625
        e   == (pA % 16384) * 1024 + pB + (pC \div 1024)
        c0  == pC % 1024
        fl  == h1 * 15625 + (pA \div 16384) + (e \div 16777216)
        rem == e % 16777216
        up  == \/ rem > 8388608
               \/ rem = 8388608 /\ c0 > 0
               \/ rem = 8388608 /\ c0 = 0 /\ fl % 2 = 1
    IN  IF up THEN fl + 1 ELSE fl

\* fmt.Sprintf("%.6f", x), as the characters of the result
Sprintf6(x) ==
    IF IsNaN(x) THEN <<"N", "a", "N">>
    ELSE LET m == Micros(x)
         IN  (IF x.h < 0 THEN <<"-">> ELSE <<>>)
             \o Numeral(m \div 1000000, 1) \o <<".">> \o Numeral(m % 1000000, 6)

\* cacheKey := fmt.Sprintf("%.6f,%.6f", lat, lon)
CacheKey(la, lo) == Sprintf6(la) \o <<",">> \o Sprintf6(lo)

\* int(lon / 15.0): the quotient cut towards zero
TimezoneOffset(lo) ==
    LET q == (AbsLimbs(lo).h \div LimbBase) \div 15
    IN  IF lo.h < 0 THEN -q ELSE q

\* estimateTimezone(lon)
estimateTimezone(lo) ==
    LET offset == TimezoneOffset(lo)
    IN  IF offset >= -12 /\ offset < -8 THEN "America/Los_Angeles"
        ELSE IF offset >= -8 /\ offset < -6 THEN "America/Denver"
        ELSE IF offset >= -6 /\ offset < -5 THEN "America/Chicago"
        ELSE IF offset >= -5 /\ offset <= 0 THEN "America/New_York"
        ELSE IF offset > 0 /\ offset <= 2 THEN "Europe/Paris"
        ELSE IF offset > 2 /\ offset <= 4 THEN "Europe/Moscow"
        ELSE IF offset > 4 /\ offset <= 6 THEN "Asia/Kolkata"
        ELSE IF offset > 6 /\ offset <= 9 THEN "Asia/Shanghai"
        ELSE IF offset > 9 /\ offset <= 12 THEN "Asia/Tokyo"
        ELSE "UTC"

\* lookupTimezone(lat, lon): with an API key it calls lookupTimezoneAPI,
\* which returns the estimate together with an error; without one it returns
\* the estimate
lookupTimezone(apiKey, la, lo) ==
    IF apiKey # ""
    THEN [timezone |-> estimateTimezone(lo), err |-> "timezone API not implemented"]
    ELSE [timezone |-> estimateTimezone(lo), err |-> Nil]

\* --------------------------------------------------------------- memory URI

\* The strings of the memory URI functions are sequences of one-character
\* strings.

\* an error made by fmt.Errorf: the text of the format and its argument
Errorf(format, arg) == [format |-> format, arg |-> arg]

\* the nil error of these functions
NoError == Errorf(Nil, <<>>)

\* "memory://"
MemoryScheme == <<"m", "e", "m", "o", "r", "y", ":", "/", "/">>

\* "<SEP>"
GraphFieldSep == <<"<", "S", "E", "P", ">">>

\* strings.HasPrefix(s, prefix)
HasPrefix(s, prefix) ==
    /\ Len(s) >= Len(prefix)
    /\ SubSeq(s, 1, Len(prefix)) = prefix

\* strings.TrimPrefix(s, prefix)
TrimPrefix(s, prefix) ==
    IF HasPrefix(s, prefix) THEN SubSeq(s, Len(prefix) + 1, Len(s)) ELSE s

\* the place (from 1) of the first occurrence of sep in s, 0 when there is none
Index(s, sep) ==
    LET at == {k \in 1..(Len(s) - Len(sep) + 1) : SubSeq(s, k, k + Len(sep) - 1) = sep}
    IN  IF at = {} THEN 0 ELSE CHOOSE k \in at : \A j \in at : k <= j

\* the place (from 1) of the last occurrence of sep in s, 0 when there is none
LastIndex(s, sep) ==
    LET at == {k \in 1..(Len(s) - Len(sep) + 1) : SubSeq(s, k, k + Len(sep) - 1) = sep}
    IN  IF at = {} THEN 0 ELSE CHOOSE k \in at : \A j \in at : k >= j

\* SplitN cutting at the last separator instead of the first
SplitAtLast(s, sep) ==
    LET k == LastIndex(s, sep)
    IN  IF k = 0 THEN <<s>>
        ELSE <<SubSeq(s, 1, k - 1), SubSeq(s, k + Len(sep), Len(s))>>

\* strings.SplitN(s, sep, 2): s cut at the first sep
SplitN2(s, sep) ==
    LET k == Index(s, sep)
    IN  IF k = 0 THEN <<s>>
        ELSE <<SubSeq(s, 1, k - 1), SubSeq(s, k + Len(sep), Len(s))>>

RECURSIVE Split(_, _)
\* strings.Split(s, sep), for a sep that is not empty
Split(s, sep) ==
    LET k == Index(s, sep)
    IN  IF k = 0 THEN <<s>>
        ELSE <<SubSeq(s, 1, k - 1)>> \o Split(SubSeq(s, k + Len(sep), Len(s)), sep)

\* the white space strings.TrimSpace removes, as far as the inputs hold it
WhiteSpace == {" ", "\t", "\n", "\r"}

\* strings.TrimSpace(s)
TrimSpace(s) ==
    LET ink == {k \in 1..Len(s) : s[k] \notin WhiteSpace}
    IN  IF ink = {} THEN <<>>
        ELSE SubSeq(s, CHOOSE k \in ink : \A j \in ink : k <= j,
                       CHOOSE k \in ink : \A j \in ink : k >= j)

\* the nil *MemoryURI
NilURI == [ContextID |-> <<>>, MemoryID |-> <<>>, nil |-> TRUE]

\* &MemoryURI{ContextID: contextID, MemoryID: memoryID}
MemoryURI(contextID, memoryID) ==
    [ContextID |-> contextID, MemoryID |-> memoryID, nil |-> FALSE]

\* ParseMemoryURI(uri)
ParseMemoryURI(u) ==
    IF ~HasPrefix(u, MemoryScheme)
    THEN [uri |-> NilURI,
          err |-> Errorf("invalid memory URI: must start with 'memory://' (got: %s)", u)]
    ELSE LET path  == TrimPrefix(u, MemoryScheme)
             parts == SplitN2(path, <<"/">>)
         IN  IF Len(parts) # 2
             THEN [uri |-> NilURI,
                   err |-> Errorf("invalid memory URI format: expected 'memory://{context_id}/{memory_id}' (got: %s)", u)]
             ELSE IF parts[1] = <<>>
             THEN [uri |-> NilURI,
                   err |-> Errorf("invalid memory URI: context_id cannot be empty", <<>>)]
             ELSE IF parts[2] = <<>>
             THEN [uri |-> NilURI,
                   err |-> Errorf("invalid memory URI: memory_id cannot be empty", <<>>)]
             ELSE [uri |-> MemoryURI(parts[1], parts[2]), err |-> NoError]

\* ParseMemoryURIs(uriString): the parts between the separators are trimmed;
\* an empty part and a part ParseMemoryURI rejects are passed over
ParseMemoryURIs(uriString) ==
    IF uriString = <<>>
    THEN [uris |-> <<>>, err |-> NoError]
    ELSE LET uriStrings == Split(uriString, GraphFieldSep)
             parsed     == [k \in 1..Len(uriStrings) |->
                               ParseMemoryURI(TrimSpace(uriStrings[k]))]
             ok(r)      == r.err = NoError
             kept       == SelectSeq(parsed, ok)
         IN  [uris |-> [k \in 1..Len(kept) |-> kept[k].uri], err |-> NoError]

\* BuildMemoryURI(contextID, memoryID)
BuildMemoryURI(contextID, memoryID) ==
    MemoryScheme \o contextID \o <<"/">> \o memoryID

\* ExtractMemoryIDs(uris)
ExtractMemoryIDs(uris) == [i \in 1..Len(uris) |-> uris[i].MemoryID]

\* the JSON body of sendError
ErrorResponse(status, message) == [status |-> status, error |-> message]

\* LookupHandler.HandleParseURIs: the request is its method, whether its
\* body is JSON that decodes into the request struct, and the uri_string
\* of the body (empty when the body has none)
HandleParseURIs(r) ==
    IF r.method # "POST"
    THEN ErrorResponse(405, "method not allowed")
    ELSE IF ~r.json
    THEN ErrorResponse(400, "invalid request body")
    ELSE IF r.uri_string = <<>>
    THEN ErrorResponse(400, "missing required field")
    ELSE LET p == ParseMemoryURIs(r.uri_string)
         IN  IF p.err # NoError
             THEN ErrorResponse(400, "failed to parse URIs")
             ELSE [status     |-> 200,
                   count      |-> Len(p.uris),
                   memories   |-> [i \in 1..Len(p.uris) |->
                                      [memory_id  |-> p.uris[i].MemoryID,
                                       context_id |-> p.uris[i].ContextID,
                                       memory_uri |-> BuildMemoryURI(p.uris[i].ContextID,
                                                                     p.uris[i].MemoryID)]],
                   unique_ids |-> ExtractMemoryIDs(p.uris)]

\* ----------------------------------------------------------------- inputs

\* 48.1351 and 11.5820 (Munich), 40.7128 and -74.0060 (New York), to 2^-40 degree
MunichLat == F(50473310, 647601)

MunichLon == F(12144607, 243270)

NewYorkLat == F(42690464, 1020055)

NewYorkLon == F(-77600916, 570426)

\* the smallest step of the fixed-point numbers, 2^-40 degree
Ulp == F(0, 1)

\* the largest precision argument tried (one past the largest valid one)
MaxPrecisionArg == 13

\* the length up to which every string over CellRunes is tried
MaxCellLen == 2

LatArgs ==
    {Deg(-90), Deg(-45), Deg(0), Ulp, Deg(45), Deg(90),
     Add(Deg(90), Ulp), Sub(Deg(-90), Ulp), Deg(91),
     MunichLat, Add(MunichLat, Ulp), NewYorkLat, NaN}

LonArgs ==
    {Deg(-180), Deg(-90), Deg(0), Ulp, Deg(90), Deg(180),
     Add(Deg(180), Ulp), Sub(Deg(-180), Ulp), Deg(-181),
     MunichLon, Add(MunichLon, Ulp), NewYorkLon, NaN}

PrecisionArgs == -1 .. MaxPrecisionArg

\* '0' '7' 'u' 'z', the letters a i l o, 'U', and the non-ASCII runes
\* U+00E9 and U+0130
CellRunes == {48, 55, 117, 122, 97, 105, 108, 111, 85, 233, 304}

CellArgs ==
    UNION {[1..n -> CellRunes] : n \in 0..MaxCellLen}
    \cup {Str(<<"0", "j">>),
          Str(<<"u", "2", "8", "1", "z", "d", "9", "z">>),
          Str(<<"u", "0", "q", "j", "5", "v", "2", "k">>),
          Str(<<"u", "3", "3", "d", "b", "3", "g", "z">>),
          Str(<<"d", "r", "5", "r", "e", "g", "w", "3">>),
          Str(<<"d", "r", "5", "r", "U", "g", "w", "3">>),
          Str(<<"u", "2", "8", "1", "z", "d", "9", "z", "2", "0", "v", "p">>),
          Str(<<"z", "z", "z", "z", "z", "z", "z", "z", "z", "z", "z", "z", "z">>)}

\* the second arguments tried for Distance
CellBArgs ==
    {<<>>, <<97>>, Str(<<"z">>), Str(<<"u", "4">>),
     Str(<<"u", "0", "q", "j", "5", "v", "2", "k">>),
     Str(<<"u", "3", "3", "d", "b", "3", "g", "z">>)}

\* the sizes of the table, the values next to them, and values off the table
RadiusArgs ==
    {Km(10000, 0), Km(5000, 0), Km(4999, 999999), Km(1250, 0), Km(1249, 999999),
     Km(156, 0), Km(100, 0), Km(39, 0), Km(38, 999999), Km(4, 900000),
     Km(4, 899999), Km(1, 200000), Km(1, 0), Km(0, 150000), Km(0, 149999),
     Km(0, 38000), Km(0, 4700), Km(0, 1200), Km(0, 150), Km(0, 37), Km(0, 36),
     Km(0, 10), Km(0, 0), Km(-1, 0), NaNKm}

\* the goroutines that call concurrently
Goroutines == {"g1", "g2"}

\* the arguments of the concurrent calls
ConcLatArgs == {Deg(0), MunichLat, Deg(91)}

ConcLonArgs == {Deg(0), MunichLon}

ConcPrecisionArgs == {0, 1, 2}

ConcCellArgs == {<<>>, <<48>>, <<97>>, Str(<<"u", "2">>)}

ConcRadiusArgs == {Km(5000, 0), Km(100, 0), Km(0, 10)}

\* the arguments of Enrich: two latitudes that differ below the sixth
\* decimal, a third one, and one out of range
EnrichLatArgs == {MunichLat, Add(MunichLat, Ulp), NewYorkLat, Deg(91)}

EnrichLonArgs == {MunichLon, Deg(181)}

EnrichPrecisionArgs == {DefaultPrecision, MaxPrecisionArg}

\* what the geocoder answers when it answers: a place with a town and no city
Places ==
    {[DisplayName |-> <<"E", "r", "d", "i", "n", "g">>, City |-> "",
      Town |-> "Erding", Village |-> "", State |-> "Bavaria", Country |-> "Germany",
      CountryCode |-> "de"]}

\* the length up to which every string over UriChars follows a prefix
MaxRestLen == 4

\* the length up to which every string over UriChars is tried as an id
MaxIdLen == 2

\* the number of parts up to which the delimited strings are built
MaxUris == 3

UriChars == {"a", "b", "/"}

\* every string over UriChars of length at most n
UriStringsUpTo(n) == UNION {[1..k -> UriChars] : k \in 0..n}

\* "memory://", nothing, and near misses of the scheme
UriPrefixes ==
    {MemoryScheme, <<>>,
     <<"m", "e", "m", "o", "r", "y", ":", "/">>,
     <<"h", "t", "t", "p", ":", "/", "/">>,
     <<"M", "e", "m", "o", "r", "y", ":", "/", "/">>,
     <<" ">> \o MemoryScheme}

UriArgs == {p \o r : p \in UriPrefixes, r \in UriStringsUpTo(MaxRestLen)}

IdArgs == UriStringsUpTo(MaxIdLen)

\* the parts of the delimited strings: URIs that share a memory id, one in
\* white space, URIs ParseMemoryURI rejects, and the empty part
UriItems ==
    {MemoryScheme \o <<"a", "/", "b">>,
     MemoryScheme \o <<"c", "/", "b">>,
     MemoryScheme \o <<"a", "/", "d">>,
     <<" ">> \o MemoryScheme \o <<"a", "/", "b", " ">>,
     <<"h", "t", "t", "p", ":", "/", "/", "a", "/", "b">>,
     MemoryScheme \o <<"a", "/">>,
     <<>>}

RECURSIVE Join(_, _)
\* the parts with sep between them
Join(parts, sep) ==
    IF Len(parts) = 0 THEN <<>>
    ELSE IF Len(parts) = 1 THEN parts[1]
    ELSE parts[1] \o sep \o Join(Tail(parts), sep)

UriStringArgs ==
    {Join(parts, GraphFieldSep) : parts \in UNION {[1..k -> UriItems] : k \in 0..MaxUris}}

RequestArgs ==
    [method : {"POST", "GET"}, json : BOOLEAN, uri_string : UriStringArgs]

\* ------------------------------------------------------------ the program

VARIABLES
    pc,         \* "idle" (no call), "encoding" (in Encode's loop), "returned"
    op,         \* the function called last
    lat,        \* Encode's arguments
    lon,
    precision,
    enc,        \* Encode's locals
    cell,       \* the argument of Decode, BoundingBox and Neighbors; Distance's first
    cellB,      \* Distance's second argument
    radiusKm,   \* the argument of PrecisionForRadius
    ret,        \* what the last call returned
    thr,        \* the calls of the goroutines that use the package concurrently
    le,         \* the LocationEnricher
    enr,        \* the Enrich calls of the goroutines that share le
    fatal,      \* the runtime has stopped the process on a concurrent map access
    uri,        \* the call into the memory URI functions and its result
    client,     \* the LightRAGClient and its call of doRequestWithRetry
    cc          \* the ConnectorConfig and its call of Validate

geoVars == <<pc, op, lat, lon, precision, enc, cell, cellB, radiusKm, ret>>

concVars == <<thr>>

enrichVars == <<le, enr, fatal>>

uriVars == <<uri>>

clientVars == <<client>>

configVars == <<cc>>

vars == <<pc, op, lat, lon, precision, enc, cell, cellB, radiusKm, ret,
          thr, le, enr, fatal, uri, client, cc>>

NoRet == [err |-> Nil]

GeoInit ==
    /\ pc = "idle"
    /\ op = "none"
    /\ lat = Deg(0)
    /\ lon = Deg(0)
    /\ precision = 0
    /\ enc = EncodeInit(0)
    /\ cell = <<>>
    /\ cellB = <<>>
    /\ radiusKm = Km(0, 0)
    /\ ret = NoRet

\* a goroutine that is in no call
IdleCall == [pc |-> "idle", op |-> "none", args |-> <<>>, enc |-> EncodeInit(0), ret |-> NoRet]

ConcInit == thr = [g \in Goroutines |-> IdleCall]

\* the cache map with no entry
EmptyCache == [k \in {} |-> k]

\* no enricher has been constructed
NoEnricher == [made |-> FALSE, cacheEnabled |-> FALSE, cache |-> EmptyCache,
               timezoneAPIKey |-> ""]

\* the zero EnrichedLocation
ZeroLocation ==
    [nil |-> FALSE, Latitude |-> Deg(0), Longitude |-> Deg(0), PlaceName |-> <<>>, City |-> "",
     State |-> "", Country |-> "", CountryCode |-> "", Timezone |-> "",
     Geohash |-> <<>>]

\* the nil *EnrichedLocation
NilLocation == [ZeroLocation EXCEPT !.nil = TRUE]

\* a goroutine that is in no call of the enricher
IdleEnrich ==
    [pc |-> "idle", op |-> "none", lat |-> Deg(0), lon |-> Deg(0), precision |-> 0,
     cacheKey |-> <<>>, result |-> ZeroLocation, stale |-> FALSE,
     held |-> EmptyCache, ret |-> NoRet]

EnrichInit ==
    /\ le = NoEnricher
    /\ enr = [g \in Goroutines |-> IdleEnrich]
    /\ fatal = FALSE

\* no call into the memory URI functions
IdleUri == [pc |-> "idle", op |-> "none", arg |-> <<>>, ret |-> NoRet]

UriInit == uri = IdleUri

\* the MaxRetries of the configuration run from -1 to this
MaxRetriesArg == 2

\* the MaxRetries a configuration is made with
MaxRetriesArgs == -1..MaxRetriesArg

\* the request body: none, one that marshals, one that does not (a channel)
RequestBodyArgs == {"nil", "marshals", "unmarshalable"}

\* the URL: one that parses and one that does not
RequestUrlArgs == {"http://lightrag/documents/text", "%zz"}

\* the status codes of the responses
StatusCodes == {199, 200, 299, 300, 400, 499, 500}

\* no client
NoClient ==
    [made |-> FALSE, maxRetries |-> 0, pc |-> "idle", requestBody |-> "nil",
     url |-> "", result |-> FALSE, attempt |-> 0, lastErr |-> NoError, slept |-> 0,
     sent |-> 0, StatusCode |-> 0, read |-> FALSE, body |-> FALSE, ret |-> NoError]

ClientInit == client = NoClient

\* the configurations Validate is called on
IdArgsOfConfig == {"", "connector-1"}

ScheduleTypeArgs == {"interval", "cron", "manual", "weekly"}

IntervalHoursArgs == {0, 6}

CronExprArgs == {"", "0 * * * *"}

QueryLimitArgs == {-1, 0, 1, 1000, 1001}

MaxConcurrencyArgs == {0, 1, 50, 51}

ConfigArgs ==
    [ID : IdArgsOfConfig, ContextID : {"", "ctx"},
     Schedule : [Type : ScheduleTypeArgs, IntervalHours : IntervalHoursArgs,
                 CronExpr : CronExprArgs],
     Ingestion : [QueryLimit : QueryLimitArgs, MaxConcurrency : MaxConcurrencyArgs]]

\* the zero ConnectorConfig, on which nothing has been called
NoConfig ==
    [pc |-> "idle",
     c |-> [ID |-> "", ContextID |-> "",
            Schedule |-> [Type |-> "", IntervalHours |-> 0, CronExpr |-> ""],
            Ingestion |-> [QueryLimit |-> 0, MaxConcurrency |-> 0]],
     before |-> [ID |-> "", ContextID |-> "",
                 Schedule |-> [Type |-> "", IntervalHours |-> 0, CronExpr |-> ""],
                 Ingestion |-> [QueryLimit |-> 0, MaxConcurrency |-> 0]],
     ret |-> NoError]

ConfigInit == cc = NoConfig

Init ==
    /\ GeoInit
    /\ ConcInit
    /\ EnrichInit
    /\ UriInit
    /\ ClientInit
    /\ ConfigInit

\* Encode is called: the argument checks, then the locals are set up
CallEncode(la, lo, p) ==
    /\ pc = "idle"
    /\ op' = "Encode"
    /\ lat' = la
    /\ lon' = lo
    /\ precision' = p
    /\ LET err == EncodeValidate(la, lo, p)
       IN  IF err # Nil
           THEN /\ pc' = "returned"
                /\ enc' = EncodeInit(0)
                /\ ret' = [str |-> <<>>, err |-> err]
           ELSE /\ pc' = "encoding"
                /\ enc' = EncodeInit(p)
                /\ ret' = NoRet
    /\ UNCHANGED <<cell, cellB, radiusKm>>
    /\ UNCHANGED <<concVars, enrichVars, uriVars, clientVars, configVars>>

\* one pass of Encode's inner loop
StepBit ==
    /\ pc = "encoding"
    /\ enc.i < precision
    /\ enc.bits < 5
    /\ enc' = EncodeBitStep(lat, lon, enc)
    /\ UNCHANGED <<pc, op, lat, lon, precision, cell, cellB, radiusKm, ret>>
    /\ UNCHANGED <<concVars, enrichVars, uriVars, clientVars, configVars>>

\* Encode's inner loop is over: the character is stored
StepChar ==
    /\ pc = "encoding"
    /\ enc.i < precision
    /\ enc.bits >= 5
    /\ enc' = EncodeCharStep(enc)
    /\ UNCHANGED <<pc, op, lat, lon, precision, cell, cellB, radiusKm, ret>>
    /\ UNCHANGED <<concVars, enrichVars, uriVars, clientVars, configVars>>

\* Encode's outer loop is over: return string(geohash), nil
ReturnEncode ==
    /\ pc = "encoding"
    /\ enc.i >= precision
    /\ pc' = "returned"
    /\ ret' = [str |-> enc.geohash, err |-> Nil]
    /\ UNCHANGED <<op, lat, lon, precision, enc, cell, cellB, radiusKm>>
    /\ UNCHANGED <<concVars, enrichVars, uriVars, clientVars, configVars>>

\* Decode is called and returns
CallDecode(c) ==
    /\ pc = "idle"
    /\ pc' = "returned"
    /\ op' = "Decode"
    /\ cell' = c
    /\ ret' = Decode(c)
    /\ UNCHANGED <<lat, lon, precision, enc, cellB, radiusKm>>
    /\ UNCHANGED <<concVars, enrichVars, uriVars, clientVars, configVars>>

\* BoundingBox is called and returns
CallBoundingBox(c) ==
    /\ pc = "idle"
    /\ pc' = "returned"
    /\ op' = "BoundingBox"
    /\ cell' = c
    /\ ret' = BoundingBox(c)
    /\ UNCHANGED <<lat, lon, precision, enc, cellB, radiusKm>>
    /\ UNCHANGED <<concVars, enrichVars, uriVars, clientVars, configVars>>

\* Neighbors is called and returns
CallNeighbors(c) ==
    /\ pc = "idle"
    /\ pc' = "returned"
    /\ op' = "Neighbors"
    /\ cell' = c
    /\ ret' = Neighbors(c)
    /\ UNCHANGED <<lat, lon, precision, enc, cellB, radiusKm>>
    /\ UNCHANGED <<concVars, enrichVars, uriVars, clientVars, configVars>>

\* Distance is called and returns
CallDistance(a, b) ==
    /\ pc = "idle"
    /\ pc' = "returned"
    /\ op' = "Distance"
    /\ cell' = a
    /\ cellB' = b
    /\ ret' = Distance(a, b)
    /\ UNCHANGED <<lat, lon, precision, enc, radiusKm>>
    /\ UNCHANGED <<concVars, enrichVars, uriVars, clientVars, configVars>>

\* PrecisionForRadius is called and returns
CallPrecisionForRadius(r) ==
    /\ pc = "idle"
    /\ pc' = "returned"
    /\ op' = "PrecisionForRadius"
    /\ radiusKm' = r
    /\ ret' = [precision |-> PrecisionForRadius(r)]
    /\ UNCHANGED <<lat, lon, precision, enc, cell, cellB>>
    /\ UNCHANGED <<concVars, enrichVars, uriVars, clientVars, configVars>>

\* the caller has taken the result; the next call can be made
TakeResult ==
    /\ pc = "returned"
    /\ pc' = "idle"
    /\ op' = "none"
    /\ lat' = Deg(0)
    /\ lon' = Deg(0)
    /\ precision' = 0
    /\ enc' = EncodeInit(0)
    /\ cell' = <<>>
    /\ cellB' = <<>>
    /\ radiusKm' = Km(0, 0)
    /\ ret' = NoRet
    /\ UNCHANGED <<concVars, enrichVars, uriVars, clientVars, configVars>>

Next ==
    \/ \E la \in LatArgs, lo \in LonArgs, p \in PrecisionArgs : CallEncode(la, lo, p)
    \/ StepBit
    \/ StepChar
    \/ ReturnEncode
    \/ \E c \in CellArgs : CallDecode(c)
    \/ \E c \in CellArgs : CallBoundingBox(c)
    \/ \E c \in CellArgs : CallNeighbors(c)
    \/ \E a \in CellArgs, b \in CellBArgs : CallDistance(a, b)
    \/ \E r \in RadiusArgs : CallPrecisionForRadius(r)
    \/ TakeResult

Spec == Init /\ [][Next]_vars

\* the run of Encode step by step returns what Encode, the function, gives
EncodeAgrees ==
    (op = "Encode" /\ pc = "returned") => ret = Encode(lat, lon, precision)

\* ------------------------------------------- the package called concurrently

\* Each goroutine runs its calls on its own arguments and locals: thr[g] is
\* the frame of goroutine g. Encode runs step by step, so that the steps of
\* two calls interleave; the package has no variable a call writes.

ConcCallEncode(g, la, lo, p) ==
    /\ thr[g].pc = "idle"
    /\ LET err == EncodeValidate(la, lo, p)
       IN  thr' = [thr EXCEPT ![g] =
                IF err # Nil
                THEN [pc |-> "returned", op |-> "Encode", args |-> <<la, lo, p>>,
                      enc |-> EncodeInit(0), ret |-> [str |-> <<>>, err |-> err]]
                ELSE [pc |-> "encoding", op |-> "Encode", args |-> <<la, lo, p>>,
                      enc |-> EncodeInit(p), ret |-> NoRet]]
    /\ UNCHANGED <<geoVars, enrichVars, uriVars, clientVars, configVars>>

\* the inner loop of Encode with the ranges in one place for all goroutines
ConcStepBitShared(g) ==
    /\ thr[g].pc = "encoding"
    /\ thr[g].enc.i < thr[g].args[3]
    /\ thr[g].enc.bits < 5
    /\ \E h \in Goroutines :
           /\ thr[h].pc = "encoding"
           /\ thr[h].enc.bits < 5
           /\ thr' = [thr EXCEPT ![g].enc =
                          EncodeBitStep(thr[g].args[1], thr[g].args[2], thr[h].enc)]
    /\ UNCHANGED <<geoVars, enrichVars, uriVars, clientVars, configVars>>

\* one pass of the inner loop of g's Encode
ConcStepBit(g) ==
    /\ thr[g].pc = "encoding"
    /\ thr[g].enc.i < thr[g].args[3]
    /\ thr[g].enc.bits < 5
    /\ thr' = [thr EXCEPT ![g].enc =
                   EncodeBitStep(thr[g].args[1], thr[g].args[2], thr[g].enc)]
    /\ UNCHANGED <<geoVars, enrichVars, uriVars, clientVars, configVars>>

\* the character of g's Encode is stored
ConcStepChar(g) ==
    /\ thr[g].pc = "encoding"
    /\ thr[g].enc.i < thr[g].args[3]
    /\ thr[g].enc.bits >= 5
    /\ thr' = [thr EXCEPT ![g].enc = EncodeCharStep(thr[g].enc)]
    /\ UNCHANGED <<geoVars, enrichVars, uriVars, clientVars, configVars>>

\* g's Encode returns
ConcReturnEncode(g) ==
    /\ thr[g].pc = "encoding"
    /\ thr[g].enc.i >= thr[g].args[3]
    /\ thr' = [thr EXCEPT ![g].pc = "returned",
                          ![g].ret = [str |-> thr[g].enc.geohash, err |-> Nil]]
    /\ UNCHANGED <<geoVars, enrichVars, uriVars, clientVars, configVars>>

\* a call of g that has returned, with its result
Returned(f, args, r) ==
    [pc |-> "returned", op |-> f, args |-> args, enc |-> EncodeInit(0), ret |-> r]

ConcCallDecode(g, c) ==
    /\ thr[g].pc = "idle"
    /\ thr' = [thr EXCEPT ![g] = Returned("Decode", <<c>>, Decode(c))]
    /\ UNCHANGED <<geoVars, enrichVars, uriVars, clientVars, configVars>>

ConcCallBoundingBox(g, c) ==
    /\ thr[g].pc = "idle"
    /\ thr' = [thr EXCEPT ![g] = Returned("BoundingBox", <<c>>, BoundingBox(c))]
    /\ UNCHANGED <<geoVars, enrichVars, uriVars, clientVars, configVars>>

ConcCallNeighbors(g, c) ==
    /\ thr[g].pc = "idle"
    /\ thr' = [thr EXCEPT ![g] = Returned("Neighbors", <<c>>, Neighbors(c))]
    /\ UNCHANGED <<geoVars, enrichVars, uriVars, clientVars, configVars>>

ConcCallDistance(g, a, b) ==
    /\ thr[g].pc = "idle"
    /\ thr' = [thr EXCEPT ![g] = Returned("Distance", <<a, b>>, Distance(a, b))]
    /\ UNCHANGED <<geoVars, enrichVars, uriVars, clientVars, configVars>>

ConcCallPrecisionForRadius(g, r) ==
    /\ thr[g].pc = "idle"
    /\ thr' = [thr EXCEPT ![g] = Returned("PrecisionForRadius", <<r>>,
                                          [precision |-> PrecisionForRadius(r)])]
    /\ UNCHANGED <<geoVars, enrichVars, uriVars, clientVars, configVars>>

\* g's caller has taken the result
ConcTakeResult(g) ==
    /\ thr[g].pc = "returned"
    /\ thr' = [thr EXCEPT ![g] = IdleCall]
    /\ UNCHANGED <<geoVars, enrichVars, uriVars, clientVars, configVars>>

NextConc ==
    \/ \E g \in Goroutines, la \in ConcLatArgs, lo \in ConcLonArgs, p \in ConcPrecisionArgs :
           ConcCallEncode(g, la, lo, p)
    \/ \E g \in Goroutines : ConcStepBit(g)
    \/ \E g \in Goroutines : ConcStepChar(g)
    \/ \E g \in Goroutines : ConcReturnEncode(g)
    \/ \E g \in Goroutines, c \in ConcCellArgs : ConcCallDecode(g, c)
    \/ \E g \in Goroutines, c \in ConcCellArgs : ConcCallBoundingBox(g, c)
    \/ \E g \in Goroutines, c \in ConcCellArgs : ConcCallNeighbors(g, c)
    \/ \E g \in Goroutines, a \in ConcCellArgs, b \in ConcCellArgs : ConcCallDistance(g, a, b)
    \/ \E g \in Goroutines, r \in ConcRadiusArgs : ConcCallPrecisionForRadius(g, r)
    \/ \E g \in Goroutines : ConcTakeResult(g)

SpecConc == Init /\ [][NextConc]_vars

\* ------------------------------------------------ the enricher and its cache

\* NewLocationEnricher(cacheEnabled)
NewLocationEnricher(cacheEnabled) ==
    /\ ~le.made
    /\ le' = [made |-> TRUE, cacheEnabled |-> cacheEnabled, cache |-> EmptyCache,
              timezoneAPIKey |-> ""]
    /\ UNCHANGED <<enr, fatal>>
    /\ UNCHANGED <<geoVars, concVars, uriVars, clientVars, configVars>>

\* the enricher is made and the process runs
Running == le.made /\ ~fatal

\* Enrich is called: the range checks and the cache key
CallEnrich(g, la, lo, p) ==
    /\ Running
    /\ enr[g].pc = "idle"
    /\ enr' = [enr EXCEPT ![g] =
           IF Lt(la, Deg(-MaxLatDeg)) \/ Gt(la, Deg(MaxLatDeg))
           THEN [IdleEnrich EXCEPT !.pc = "returned", !.op = "Enrich", !.lat = la,
                                   !.lon = lo, !.precision = p,
                                   !.ret = [location |-> NilLocation,
                                            err |-> ErrInvalidLatitude]]
           ELSE IF Lt(lo, Deg(-MaxLonDeg)) \/ Gt(lo, Deg(MaxLonDeg))
           THEN [IdleEnrich EXCEPT !.pc = "returned", !.op = "Enrich", !.lat = la,
                                   !.lon = lo, !.precision = p,
                                   !.ret = [location |-> NilLocation,
                                            err |-> ErrInvalidLongitude]]
           ELSE [IdleEnrich EXCEPT !.pc = IF le.cacheEnabled THEN "lookup" ELSE "encode",
                                   !.op = "Enrich", !.lat = la, !.lon = lo,
                                   !.precision = p, !.cacheKey = CacheKey(la, lo)]]
    /\ UNCHANGED <<le, fatal>>
    /\ UNCHANGED <<geoVars, concVars, uriVars, clientVars, configVars>>

\* the read of the cache waiting while another goroutine is in the map
BeginCacheReadLocked(g) ==
    /\ Running
    /\ enr[g].pc = "lookup"
    /\ \A h \in Goroutines : enr[h].pc \notin {"reading", "writing"}
    /\ enr' = [enr EXCEPT ![g].pc = "reading"]
    /\ UNCHANGED <<le, fatal>>
    /\ UNCHANGED <<geoVars, concVars, uriVars, clientVars, configVars>>

\* le.cache[cacheKey] begins: the map is loaded from le
BeginCacheRead(g) ==
    /\ Running
    /\ enr[g].pc = "lookup"
    /\ enr' = [enr EXCEPT ![g].pc = "reading"]
    /\ UNCHANGED <<le, fatal>>
    /\ UNCHANGED <<geoVars, concVars, uriVars, clientVars, configVars>>

\* the map g's access is in: the one ClearCache has replaced meanwhile, or
\* the one of le
MapOf(g) == IF enr[g].stale THEN enr[g].held ELSE le.cache

\* le.cache[cacheKey] ends: a hit returns the cached location
EndCacheRead(g) ==
    /\ Running
    /\ enr[g].pc = "reading"
    /\ enr' = [enr EXCEPT ![g] =
           IF enr[g].cacheKey \in DOMAIN MapOf(g)
           THEN [@ EXCEPT !.pc = "returned", !.stale = FALSE, !.held = EmptyCache,
                          !.ret = [location |-> MapOf(g)[enr[g].cacheKey],
                                   err |-> Nil]]
           ELSE [@ EXCEPT !.pc = "encode", !.stale = FALSE, !.held = EmptyCache]]
    /\ UNCHANGED <<le, fatal>>
    /\ UNCHANGED <<geoVars, concVars, uriVars, clientVars, configVars>>

\* fmt.Errorf("failed to generate geohash: %w", err), as its text
WrapGeohashError(err) ==
    IF err = ErrInvalidLatitude
    THEN "failed to generate geohash: latitude must be between -90 and 90"
    ELSE IF err = ErrInvalidLongitude
    THEN "failed to generate geohash: longitude must be between -180 and 180"
    ELSE "failed to generate geohash: precision must be between 1 and 12"

\* the result is made and the geohash generated
EnrichEncode(g) ==
    /\ Running
    /\ enr[g].pc = "encode"
    /\ LET e == Encode(enr[g].lat, enr[g].lon, enr[g].precision)
       IN  enr' = [enr EXCEPT ![g] =
               IF e.err # Nil
               THEN [@ EXCEPT !.pc = "returned",
                              !.ret = [location |-> NilLocation,
                                       err |-> WrapGeohashError(e.err)]]
               ELSE [@ EXCEPT !.pc = "geocode",
                              !.result = [ZeroLocation EXCEPT
                                              !.Latitude = enr[g].lat,
                                              !.Longitude = enr[g].lon,
                                              !.Geohash = e.str]]]
    /\ UNCHANGED <<le, fatal>>
    /\ UNCHANGED <<geoVars, concVars, uriVars, clientVars, configVars>>

\* AfterGeocode going on to the cache whether it is enabled or not
AfterGeocodeStoreAlways(g, located) ==
    LET tz   == lookupTimezone(le.timezoneAPIKey, enr[g].lat, enr[g].lon)
        zone == IF tz.err # Nil THEN estimateTimezone(enr[g].lon) ELSE tz.timezone
        res  == [located EXCEPT !.Timezone = zone]
    IN  [enr[g] EXCEPT !.pc = "store", !.result = res]

\* the rest of Enrich up to the cache: the time zone is set, and the call
\* returns when there is no cache
AfterGeocode(g, located) ==
    LET tz   == lookupTimezone(le.timezoneAPIKey, enr[g].lat, enr[g].lon)
        zone == IF tz.err # Nil THEN estimateTimezone(enr[g].lon) ELSE tz.timezone
        res  == [located EXCEPT !.Timezone = zone]
    IN  IF le.cacheEnabled
        THEN [enr[g] EXCEPT !.pc = "store", !.result = res]
        ELSE [enr[g] EXCEPT !.pc = "returned", !.result = res,
                            !.ret = [location |-> res, err |-> Nil]]

\* reverseGeocode fails: the place name is made of the coordinates
GeocodeFails(g) ==
    /\ Running
    /\ enr[g].pc = "geocode"
    /\ enr' = [enr EXCEPT ![g] =
           AfterGeocode(g, [enr[g].result EXCEPT
                                !.PlaceName = Sprintf6(enr[g].lat) \o <<",", " ">>
                                              \o Sprintf6(enr[g].lon)])]
    /\ UNCHANGED <<le, fatal>>
    /\ UNCHANGED <<geoVars, concVars, uriVars, clientVars, configVars>>

\* reverseGeocode answers with a place
GeocodeAnswers(g, place) ==
    /\ Running
    /\ enr[g].pc = "geocode"
    /\ enr' = [enr EXCEPT ![g] =
           AfterGeocode(g, [enr[g].result EXCEPT
                                !.PlaceName = place.DisplayName,
                                !.City = IF place.City # "" THEN place.City
                                         ELSE IF place.Town # "" THEN place.Town
                                         ELSE place.Village,
                                !.State = place.State,
                                !.Country = place.Country,
                                !.CountryCode = place.CountryCode])]
    /\ UNCHANGED <<le, fatal>>
    /\ UNCHANGED <<geoVars, concVars, uriVars, clientVars, configVars>>

\* le.cache[cacheKey] = result begins: the map is loaded from le
BeginCacheWrite(g) ==
    /\ Running
    /\ enr[g].pc = "store"
    /\ enr' = [enr EXCEPT ![g].pc = "writing"]
    /\ UNCHANGED <<le, fatal>>
    /\ UNCHANGED <<geoVars, concVars, uriVars, clientVars, configVars>>

\* the map m with result under key
Store(m, key, result) ==
    [k \in DOMAIN m \cup {key} |-> IF k = key THEN result ELSE m[k]]

\* le.cache[cacheKey] = result ends, and Enrich returns the result; the
\* entry is lost when ClearCache replaced the map during the write
EndCacheWrite(g) ==
    /\ Running
    /\ enr[g].pc = "writing"
    /\ le' = IF enr[g].stale THEN le
             ELSE [le EXCEPT !.cache = Store(le.cache, enr[g].cacheKey, enr[g].result)]
    /\ enr' = [enr EXCEPT ![g] =
                   [@ EXCEPT !.pc = "returned", !.stale = FALSE, !.held = EmptyCache,
                             !.ret = [location |-> enr[g].result, err |-> Nil]]]
    /\ UNCHANGED fatal
    /\ UNCHANGED <<geoVars, concVars, uriVars, clientVars, configVars>>

\* ClearCache, called by a goroutine that is in no other call: le.cache is a
\* new map; an access that is under way stays in the map it loaded
ClearCache(g) ==
    /\ Running
    /\ enr[g].pc = "idle"
    /\ le' = [le EXCEPT !.cache = EmptyCache]
    /\ enr' = [h \in Goroutines |->
                   IF enr[h].pc \in {"reading", "writing"} /\ ~enr[h].stale
                   THEN [enr[h] EXCEPT !.stale = TRUE, !.held = le.cache]
                   ELSE enr[h]]
    /\ UNCHANGED fatal
    /\ UNCHANGED <<geoVars, concVars, uriVars, clientVars, configVars>>

\* GetCacheStats
GetCacheStats(g) ==
    /\ Running
    /\ enr[g].pc = "idle"
    /\ enr' = [enr EXCEPT ![g] =
                   [IdleEnrich EXCEPT !.pc = "returned", !.op = "GetCacheStats",
                                      !.ret = [size |-> Cardinality(DOMAIN le.cache),
                                               enabled |-> le.cacheEnabled]]]
    /\ UNCHANGED <<le, fatal>>
    /\ UNCHANGED <<geoVars, concVars, uriVars, clientVars, configVars>>

\* the caller of g has taken the result
TakeEnrichResult(g) ==
    /\ Running
    /\ enr[g].pc = "returned"
    /\ enr' = [enr EXCEPT ![g] = IdleEnrich]
    /\ UNCHANGED <<le, fatal>>
    /\ UNCHANGED <<geoVars, concVars, uriVars, clientVars, configVars>>

\* g is in an access to the map while h writes the same map
MapRace(g, h) ==
    /\ g # h
    /\ enr[g].pc \in {"reading", "writing"}
    /\ enr[h].pc = "writing"
    /\ enr[g].stale = enr[h].stale

\* the runtime finds the map written during another access and stops the
\* process ("concurrent map read and map write", "concurrent map writes");
\* it need not find it
ConcurrentMapFatal ==
    /\ Running
    /\ \E g \in Goroutines, h \in Goroutines : MapRace(g, h)
    /\ fatal' = TRUE
    /\ UNCHANGED <<le, enr>>
    /\ UNCHANGED <<geoVars, concVars, uriVars, clientVars, configVars>>

NextEnrich ==
    \/ \E b \in BOOLEAN : NewLocationEnricher(b)
    \/ \E g \in Goroutines, la \in EnrichLatArgs, lo \in EnrichLonArgs,
          p \in EnrichPrecisionArgs : CallEnrich(g, la, lo, p)
    \/ \E g \in Goroutines : BeginCacheRead(g)
    \/ \E g \in Goroutines : EndCacheRead(g)
    \/ \E g \in Goroutines : EnrichEncode(g)
    \/ \E g \in Goroutines : GeocodeFails(g)
    \/ \E g \in Goroutines, place \in Places : GeocodeAnswers(g, place)
    \/ \E g \in Goroutines : BeginCacheWrite(g)
    \/ \E g \in Goroutines : EndCacheWrite(g)
    \/ \E g \in Goroutines : ClearCache(g)
    \/ \E g \in Goroutines : GetCacheStats(g)
    \/ \E g \in Goroutines : TakeEnrichResult(g)
    \/ ConcurrentMapFatal

SpecEnrich == Init /\ [][NextEnrich]_vars

\* ------------------------------------------------- the memory URI functions

CallParseMemoryURI(u) ==
    /\ uri.pc = "idle"
    /\ uri' = [pc |-> "returned", op |-> "ParseMemoryURI", arg |-> u,
               ret |-> ParseMemoryURI(u)]
    /\ UNCHANGED <<geoVars, concVars, enrichVars, clientVars, configVars>>

CallParseMemoryURIs(s) ==
    /\ uri.pc = "idle"
    /\ uri' = [pc |-> "returned", op |-> "ParseMemoryURIs", arg |-> s,
               ret |-> ParseMemoryURIs(s)]
    /\ UNCHANGED <<geoVars, concVars, enrichVars, clientVars, configVars>>

CallBuildMemoryURI(contextID, memoryID) ==
    /\ uri.pc = "idle"
    /\ uri' = [pc |-> "returned", op |-> "BuildMemoryURI",
               arg |-> <<contextID, memoryID>>,
               ret |-> [str |-> BuildMemoryURI(contextID, memoryID)]]
    /\ UNCHANGED <<geoVars, concVars, enrichVars, clientVars, configVars>>

\* a request to POST /api/v1/lookup/parse-uris is served
ServeParseURIs(r) ==
    /\ uri.pc = "idle"
    /\ uri' = [pc |-> "returned", op |-> "HandleParseURIs", arg |-> r,
               ret |-> HandleParseURIs(r)]
    /\ UNCHANGED <<geoVars, concVars, enrichVars, clientVars, configVars>>

\* the caller has taken the result
TakeUriResult ==
    /\ uri.pc = "returned"
    /\ uri' = IdleUri
    /\ UNCHANGED <<geoVars, concVars, enrichVars, clientVars, configVars>>

NextUri ==
    \/ \E u \in UriArgs : CallParseMemoryURI(u)
    \/ \E s \in UriStringArgs : CallParseMemoryURIs(s)
    \/ \E c \in IdArgs, m \in IdArgs : CallBuildMemoryURI(c, m)
    \/ \E r \in RequestArgs : ServeParseURIs(r)
    \/ TakeUriResult

SpecUri == Init /\ [][NextUri]_vars

\* ------------------------------------------- the requests of LightRAGClient

DefaultMaxRetries == 3

\* NewLightRAGClient(config, logger), as to MaxRetries
NewLightRAGClient(MaxRetries) ==
    /\ ~client.made
    /\ client' = [NoClient EXCEPT !.made = TRUE,
                                  !.maxRetries = IF MaxRetries = 0
                                                 THEN DefaultMaxRetries
                                                 ELSE MaxRetries]
    /\ UNCHANGED <<geoVars, concVars, enrichVars, uriVars, configVars>>

\* doRequestWithRetry is called; result tells whether a result is wanted
CalldoRequestWithRetry(url, requestBody, result) ==
    /\ client.made
    /\ client.pc = "idle"
    /\ client' = [NoClient EXCEPT !.made = TRUE, !.maxRetries = client.maxRetries,
                                  !.pc = "loop", !.url = url,
                                  !.requestBody = requestBody, !.result = result]
    /\ UNCHANGED <<geoVars, concVars, enrichVars, uriVars, configVars>>

\* the condition of the loop with < for <=
AttemptingBelow(attempt, maxRetries) == attempt < maxRetries

\* attempt <= c.maxRetries, the condition of the loop
Attempting(attempt, maxRetries) == attempt <= maxRetries

\* the head of the loop: the test, and the sleep before every attempt but the
\* first; after the loop the last error is returned
LoopTest ==
    /\ client.pc = "loop"
    /\ client' =
           IF Attempting(client.attempt, client.maxRetries)
           THEN [client EXCEPT !.pc = "prepare",
                               !.slept = IF client.attempt > 0 THEN @ + client.attempt
                                         ELSE @]
           ELSE [client EXCEPT !.pc = "returned",
                               !.ret = Errorf("request failed after %d retries: %w",
                                              <<client.maxRetries, client.lastErr>>)]
    /\ UNCHANGED <<geoVars, concVars, enrichVars, uriVars, configVars>>

\* the body is marshalled and the request made
PrepareRequest ==
    /\ client.pc = "prepare"
    /\ client' =
           IF client.requestBody = "unmarshalable"
           THEN [client EXCEPT !.pc = "returned",
                               !.ret = Errorf("failed to marshal request body: %w", <<>>)]
           ELSE IF client.url = "%zz"
           THEN [client EXCEPT !.pc = "returned",
                               !.ret = Errorf("failed to create request: %w", <<>>)]
           ELSE [client EXCEPT !.pc = "do"]
    /\ UNCHANGED <<geoVars, concVars, enrichVars, uriVars, configVars>>

\* the error of c.httpClient.Do
TransportError == Errorf("Post %q: %s", <<>>)

\* c.httpClient.Do(req) returns an error: continue
DoFails ==
    /\ client.pc = "do"
    /\ client' = [client EXCEPT !.pc = "loop", !.sent = @ + 1,
                                !.lastErr = TransportError, !.attempt = @ + 1]
    /\ UNCHANGED <<geoVars, concVars, enrichVars, uriVars, configVars>>

\* c.httpClient.Do(req) returns a response
DoResponds(StatusCode) ==
    /\ client.pc = "do"
    /\ client' = [client EXCEPT !.pc = "status", !.sent = @ + 1,
                                !.StatusCode = StatusCode]
    /\ UNCHANGED <<geoVars, concVars, enrichVars, uriVars, configVars>>

\* resp.StatusCode < 200 || resp.StatusCode >= 300
NonSuccess(StatusCode) == StatusCode < 200 \/ StatusCode >= 300

\* resp.StatusCode >= 400 && resp.StatusCode < 500
ClientError(StatusCode) == StatusCode >= 400 /\ StatusCode < 500

\* the status of the response is looked at
CheckStatus ==
    /\ client.pc = "status"
    /\ client' =
           IF NonSuccess(client.StatusCode)
           THEN IF ClientError(client.StatusCode)
                THEN [client EXCEPT !.pc = "returned",
                          !.lastErr = Errorf("API returned status %d: %s",
                                             <<client.StatusCode>>),
                          !.ret = Errorf("API returned status %d: %s",
                                         <<client.StatusCode>>)]
                ELSE [client EXCEPT !.pc = "loop", !.attempt = @ + 1,
                          !.lastErr = Errorf("API returned status %d: %s",
                                             <<client.StatusCode>>)]
           ELSE [client EXCEPT !.pc = "read"]
    /\ UNCHANGED <<geoVars, concVars, enrichVars, uriVars, configVars>>

\* io.ReadAll(resp.Body) returns an error: continue
ReadBodyFails ==
    /\ client.pc = "read"
    /\ client' = [client EXCEPT !.pc = "loop", !.attempt = @ + 1,
                      !.lastErr = Errorf("failed to read response body: %w", <<>>)]
    /\ UNCHANGED <<geoVars, concVars, enrichVars, uriVars, configVars>>

\* io.ReadAll(resp.Body) returns the body, which is JSON for the result or not
ReadBody(json) ==
    /\ client.pc = "read"
    /\ client' = [client EXCEPT !.pc = "unmarshal", !.read = TRUE, !.body = json]
    /\ UNCHANGED <<geoVars, concVars, enrichVars, uriVars, configVars>>

\* the body is unmarshalled into the result when there is one
UnmarshalResult ==
    /\ client.pc = "unmarshal"
    /\ client' =
           IF client.result /\ ~client.body
           THEN [client EXCEPT !.pc = "returned",
                               !.ret = Errorf("failed to unmarshal response: %w", <<>>)]
           ELSE [client EXCEPT !.pc = "returned", !.ret = NoError]
    /\ UNCHANGED <<geoVars, concVars, enrichVars, uriVars, configVars>>

\* the caller has taken the error
TakeClientResult ==
    /\ client.pc = "returned"
    /\ client' = [NoClient EXCEPT !.made = TRUE, !.maxRetries = client.maxRetries]
    /\ UNCHANGED <<geoVars, concVars, enrichVars, uriVars, configVars>>

\* a step of doRequestWithRetry
ClientStep ==
    \/ LoopTest
    \/ PrepareRequest
    \/ DoFails
    \/ \E s \in StatusCodes : DoResponds(s)
    \/ CheckStatus
    \/ ReadBodyFails
    \/ \E json \in BOOLEAN : ReadBody(json)
    \/ UnmarshalResult

NextClient ==
    \/ \E m \in MaxRetriesArgs : NewLightRAGClient(m)
    \/ \E u \in RequestUrlArgs, b \in RequestBodyArgs, r \in BOOLEAN :
           CalldoRequestWithRetry(u, b, r)
    \/ LoopTest
    \/ PrepareRequest
    \/ DoFails
    \/ \E s \in StatusCodes : DoResponds(s)
    \/ CheckStatus
    \/ ReadBodyFails
    \/ \E json \in BOOLEAN : ReadBody(json)
    \/ UnmarshalResult
    \/ TakeClientResult

\* a call that has begun goes on: the sleeps end, and the HTTP client answers
\* or fails by its timeout
SpecClient == Init /\ [][NextClient]_vars /\ WF_vars(ClientStep)

\* ------------------------------------------------- the connector's settings

\* the configuration is read from the file
LoadConfig(c) ==
    /\ cc.pc = "idle"
    /\ cc' = [NoConfig EXCEPT !.c = c, !.before = c]
    /\ UNCHANGED <<geoVars, concVars, enrichVars, uriVars, clientVars>>

DefaultQueryLimit == 100

DefaultMaxConcurrency == 5

\* the error of Validate on c
ValidateError(c) ==
    IF c.ID = "" THEN Errorf("connector ID is required", <<>>)
    ELSE IF c.ContextID = "" THEN Errorf("context_id is required", <<>>)
    ELSE IF c.Schedule.Type = "interval"
    THEN IF c.Schedule.IntervalHours <= 0
         THEN Errorf("interval_hours must be positive", <<>>)
         ELSE NoError
    ELSE IF c.Schedule.Type = "cron"
    THEN IF c.Schedule.CronExpr = ""
         THEN Errorf("cron_expr is required for cron schedule type", <<>>)
         ELSE NoError
    ELSE IF c.Schedule.Type = "manual" THEN NoError
    ELSE Errorf("invalid schedule type: %s (must be interval, cron, or manual)",
                <<c.Schedule.Type>>)

\* the ingestion settings with the defaults in the place of what is not positive
WithDefaults(Ingestion) ==
    [Ingestion EXCEPT
         !.QueryLimit = IF @ <= 0 THEN DefaultQueryLimit ELSE @,
         !.MaxConcurrency = IF @ <= 0 THEN DefaultMaxConcurrency ELSE @]

\* c.Validate()
Validate ==
    /\ cc.pc = "idle"
    /\ cc' = IF ValidateError(cc.c) # NoError
             THEN [cc EXCEPT !.pc = "returned", !.before = cc.c,
                             !.ret = ValidateError(cc.c)]
             ELSE [cc EXCEPT !.pc = "returned", !.before = cc.c,
                             !.c.Ingestion = WithDefaults(cc.c.Ingestion),
                             !.ret = NoError]
    /\ UNCHANGED <<geoVars, concVars, enrichVars, uriVars, clientVars>>

\* the caller has taken the error; the configuration stays
TakeConfigResult ==
    /\ cc.pc = "returned"
    /\ cc' = [cc EXCEPT !.pc = "idle", !.ret = NoError]
    /\ UNCHANGED <<geoVars, concVars, enrichVars, uriVars, clientVars>>

NextConfig ==
    \/ \E c \in ConfigArgs : LoadConfig(c)
    \/ Validate
    \/ TakeConfigResult

SpecConfig == Init /\ [][NextConfig]_vars

\* ------------------------------------------------------------- properties

\* a <= b, for numbers
Leq(a, b) ==
    /\ ~IsNaN(a)
    /\ ~IsNaN(b)
    /\ \/ a.h < b.h
       \/ a.h = b.h /\ a.l <= b.l

\* x lies in the closed interval [-d, d] degrees
InDegrees(x, d) == Leq(Deg(-d), x) /\ Leq(x, Deg(d))

ValidCoord(la, lo) == InDegrees(la, 90) /\ InDegrees(lo, 180)

ValidArgs(la, lo, p) == ValidCoord(la, lo) /\ p \in 1..12

\* an Encode call has returned
EncodeReturned == op = "Encode" /\ pc = "returned"

\* an Encode call with valid arguments has returned
EncodeValidReturned == EncodeReturned /\ ValidArgs(lat, lon, precision)

\* C1 (as claimed): Encode returns an error if and only if lat is outside
\* [-90, 90], lon is outside [-180, 180] or precision is outside 1..12; the
\* first failing check in the order latitude, longitude, precision decides
\* the error; a failing call returns the empty string.
C1Claim ==
    EncodeReturned =>
        LET badLat  == ~InDegrees(lat, 90)
            badLon  == ~InDegrees(lon, 180)
            badPrec == precision \notin 1..12
        IN  /\ (ret.err # Nil) <=> (badLat \/ badLon \/ badPrec)
            /\ badLat => ret.err = ErrInvalidLatitude
            /\ (~badLat /\ badLon) => ret.err = ErrInvalidLongitude
            /\ (~badLat /\ ~badLon /\ badPrec) => ret.err = ErrInvalidPrecision
            /\ (ret.err # Nil) => ret.str = <<>>

RECURSIVE RefRange(_, _, _)
\* the range left of `full` after n bisections towards coord, the upper half
\* being taken when coord is above the midpoint
RefRange(coord, full, n) ==
    IF n = 0 THEN full
    ELSE LET r   == RefRange(coord, full, n - 1)
             mid == Half(Add(r[1], r[2]))
         IN  IF Gt(coord, mid) THEN <<mid, r[2]>> ELSE <<r[1], mid>>

FullLat == <<Deg(-90), Deg(90)>>

FullLon == <<Deg(-180), Deg(180)>>

\* bit k (from 0) of the interleaved bisection of (la, lo)
RefBit(la, lo, k) ==
    LET r == IF k % 2 = 0 THEN RefRange(lo, FullLon, k \div 2)
                          ELSE RefRange(la, FullLat, k \div 2)
        c == IF k % 2 = 0 THEN lo ELSE la
    IN  IF Gt(c, Half(Add(r[1], r[2]))) THEN 1 ELSE 0

\* the value of the 5-bit group that starts at bit k, most significant first
RefGroup(la, lo, k) ==
    16 * RefBit(la, lo, k) + 8 * RefBit(la, lo, k + 1) + 4 * RefBit(la, lo, k + 2)
    + 2 * RefBit(la, lo, k + 3) + RefBit(la, lo, k + 4)

\* C2: for valid arguments Encode produces precision*5 bits; bit k bisects
\* the longitude range for even k and the latitude range for odd k, each
\* range narrowed after its bit; every 5 bits, most significant first, index
\* one character of the alphabet.
C2Theorem ==
    (op = "Encode" /\ pc \in {"encoding", "returned"} /\ ValidArgs(lat, lon, precision)) =>
        LET k == 5 * enc.i + enc.bits
        IN  /\ enc.even <=> (k % 2 = 0)
            /\ enc.lonRange = RefRange(lon, FullLon, (k + 1) \div 2)
            /\ enc.latRange = RefRange(lat, FullLat, k \div 2)
            /\ pc = "returned" =>
                   /\ k = 5 * precision
                   /\ Len(ret.str) = precision
                   /\ \A j \in 1..precision :
                          ret.str[j] = base32[RefGroup(lat, lon, 5 * (j - 1)) + 1]

C2Witness ==
    /\ EncodeValidReturned
    /\ precision = 12
    /\ lat = NewYorkLat
    /\ lon = NewYorkLon
    /\ ret.str = Str(<<"d", "r", "5", "r", "e", "g", "w", "3", "p", "p", "y", "z">>)

\* the range Encode is about to bisect, and the coordinate it tests
ActiveRange == IF enc.even THEN enc.lonRange ELSE enc.latRange

ActiveCoord == IF enc.even THEN lon ELSE lat

\* C3: a pass of Encode's inner loop sets its bit only when the coordinate
\* is strictly above the midpoint of the active range; on a coordinate equal
\* to the midpoint the bit stays 0 and the range keeps its lower half.
\* Hence Encode(0, 0, 1) is "7", the cell of latitude [-45, 0] and longitude
\* [-45, 0].
C3Theorem ==
    /\ [][(pc = "encoding" /\ enc.i < precision /\ enc.bits < 5) =>
            LET mid == Half(Add(ActiveRange[1], ActiveRange[2]))
                new == IF enc.even THEN enc'.lonRange ELSE enc'.latRange
            IN  /\ enc'.ch # enc.ch =>
                       /\ Gt(ActiveCoord, mid)
                       /\ enc'.ch = enc.ch + 2^(4 - enc.bits)
                /\ ActiveCoord = mid =>
                       /\ enc'.ch = enc.ch
                       /\ new = <<ActiveRange[1], mid>>]_vars
    /\ [](EncodeReturned /\ lat = Deg(0) /\ lon = Deg(0) /\ precision = 1 =>
            /\ ret = [str |-> Str(<<"7">>), err |-> Nil]
            /\ BoundingBox(ret.str) =
                   [minLat |-> Deg(-45), maxLat |-> Deg(0),
                    minLon |-> Deg(-45), maxLon |-> Deg(0), err |-> Nil])

\* Encode(0, 0, 1) is at its last bit, which tests longitude 0 against the
\* midpoint -45 after the ties of its first two bits
C3Witness ==
    /\ op = "Encode"
    /\ pc = "encoding"
    /\ lat = Deg(0)
    /\ lon = Deg(0)
    /\ precision = 1
    /\ enc.bits = 4
    /\ enc.ch = 6
    /\ enc.lonRange = <<Deg(-90), Deg(0)>>
    /\ enc.latRange = <<Deg(-45), Deg(0)>>

\* (la, lo) lies in the closed box bb
InBox(la, lo, bb) ==
    /\ Leq(bb.minLat, la) /\ Leq(la, bb.maxLat)
    /\ Leq(bb.minLon, lo) /\ Leq(lo, bb.maxLon)

\* x lies in [min, max] and not on the lower edge min, unless that edge is
\* the edge -d of the world
InUpper(x, min, max, d) ==
    /\ Leq(min, x)
    /\ Leq(x, max)
    /\ x = min => min = Deg(-d)

\* (la, lo) lies in the box bb off its lower latitude and longitude edges
InCell(la, lo, bb) ==
    /\ InUpper(la, bb.minLat, bb.maxLat, 90)
    /\ InUpper(lo, bb.minLon, bb.maxLon, 180)

\* the cell strings of length p that are tried as boxes
CellsOfLen(p) == {c \in CellArgs : Len(c) = p}

\* C4 (as claimed): two valid coordinates inside the bounding box of one cell
\* string of length p are encoded at precision p to the same string.
C4Claim ==
    EncodeValidReturned =>
        \A c \in {ret.str} \cup CellsOfLen(precision) :
            LET bb == BoundingBox(c)
            IN  (bb.err = Nil /\ InBox(lat, lon, bb)) =>
                    \A la \in LatArgs, lo \in LonArgs :
                        (ValidCoord(la, lo) /\ InBox(la, lo, bb)) =>
                            Encode(la, lo, precision).str = ret.str

\* C4 (amended): two valid coordinates inside the bounding box of one cell
\* string of length p, neither on the box's lower latitude edge unless that
\* edge is -90 nor on its lower longitude edge unless that edge is -180, are
\* encoded at precision p to the same string.
C4Theorem ==
    EncodeValidReturned =>
        \A c \in {ret.str} \cup CellsOfLen(precision) :
            LET bb == BoundingBox(c)
            IN  (bb.err = Nil /\ InCell(lat, lon, bb)) =>
                    \A la \in LatArgs, lo \in LonArgs :
                        (ValidCoord(la, lo) /\ InCell(la, lo, bb)) =>
                            Encode(la, lo, precision).str = ret.str

\* a 12-character cell that holds the encoded point and another one
C4Witness ==
    /\ EncodeValidReturned
    /\ precision = 12
    /\ InCell(lat, lon, BoundingBox(ret.str))
    /\ \E la \in LatArgs, lo \in LonArgs :
           /\ <<la, lo>> # <<lat, lon>>
           /\ ValidCoord(la, lo)
           /\ InCell(la, lo, BoundingBox(ret.str))

\* a Decode call has returned
DecodeReturned == op = "Decode" /\ pc = "returned"

\* the runes of the 32-symbol alphabet
AlphabetRunes == {base32[k] : k \in 1..Len(base32)}

\* C5 (as claimed): Decode fails with the empty-input error on the empty
\* string, with the invalid-character error when a character is outside the
\* alphabet (non-ASCII characters included), and succeeds otherwise.
C5Claim ==
    DecodeReturned =>
        ret.err = IF Len(cell) = 0 THEN ErrEmpty
                  ELSE IF \E k \in 1..Len(cell) : cell[k] \notin AlphabetRunes
                       THEN ErrInvalidChar
                  ELSE Nil

\* C6: BoundingBox fails exactly when Decode fails; when they succeed Decode
\* returns the midpoints of BoundingBox's ranges, which lie within them; so
\* also for the cell a valid Encode returns.
C6Theorem ==
    LET agree(d, bb) ==
            /\ (d.err # Nil) <=> (bb.err # Nil)
            /\ d.err = Nil =>
                   /\ Add(d.lat, d.lat) = Add(bb.minLat, bb.maxLat)
                   /\ Add(d.lon, d.lon) = Add(bb.minLon, bb.maxLon)
                   /\ InBox(d.lat, d.lon, bb)
    IN  /\ DecodeReturned => agree(ret, BoundingBox(cell))
        /\ (op = "BoundingBox" /\ pc = "returned") => agree(Decode(cell), ret)
        /\ EncodeValidReturned =>
               /\ Decode(ret.str).err = Nil
               /\ agree(Decode(ret.str), BoundingBox(ret.str))

C6Witness ==
    /\ DecodeReturned
    /\ cell = Str(<<"u", "2", "8", "1", "z", "d", "9", "z", "2", "0", "v", "p">>)
    /\ ret.err = Nil
    /\ Gt(BoundingBox(cell).maxLat, ret.lat)
    /\ Gt(ret.lon, BoundingBox(cell).minLon)

\* C7: the string a successful Encode returns has length precision, holds
\* only characters of the alphabet, and Decode and BoundingBox accept it.
C7Theorem ==
    (EncodeReturned /\ ret.err = Nil) =>
        /\ Len(ret.str) = precision
        /\ \A k \in 1..Len(ret.str) : ret.str[k] \in AlphabetRunes
        /\ Decode(ret.str).err = Nil
        /\ BoundingBox(ret.str).err = Nil

C7Witness ==
    /\ EncodeReturned
    /\ ret.err = Nil
    /\ precision = 12
    /\ ret.str = Str(<<"z", "z", "z", "z", "z", "z", "z", "z", "z", "z", "z", "z">>)

\* maxLat - minLat and maxLon - minLon
LatSpan(bb) == Sub(bb.maxLat, bb.minLat)

LonSpan(bb) == Sub(bb.maxLon, bb.minLon)

\* C8: for valid (lat, lon) and p in 1..11 the bounding box of
\* Encode(lat, lon, p+1) is contained in that of Encode(lat, lon, p), and its
\* latitude span or its longitude span is strictly smaller.
C8Theorem ==
    (EncodeValidReturned /\ precision <= 11) =>
        LET b1 == BoundingBox(ret.str)
            b2 == BoundingBox(Encode(lat, lon, precision + 1).str)
        IN  /\ b1.err = Nil
            /\ b2.err = Nil
            /\ Leq(b1.minLat, b2.minLat) /\ Leq(b2.maxLat, b1.maxLat)
            /\ Leq(b1.minLon, b2.minLon) /\ Leq(b2.maxLon, b1.maxLon)
            /\ \/ Lt(LatSpan(b2), LatSpan(b1))
               \/ Lt(LonSpan(b2), LonSpan(b1))

C8Witness ==
    /\ EncodeValidReturned
    /\ precision = 11
    /\ lat = Deg(-90)
    /\ lon = Deg(-180)
    /\ Lt(LatSpan(BoundingBox(Encode(lat, lon, 12).str)), LatSpan(BoundingBox(ret.str)))

\* C9: for valid (lat, lon) and p <= q in 1..12, Encode(lat, lon, p) is the
\* first p characters of Encode(lat, lon, q).
C9Theorem ==
    EncodeValidReturned =>
        \A p \in 1..precision :
            Encode(lat, lon, p) = [str |-> SubSeq(ret.str, 1, p), err |-> Nil]

C9Witness ==
    /\ EncodeValidReturned
    /\ precision = 12
    /\ lat = MunichLat
    /\ lon = MunichLon
    /\ Encode(lat, lon, 5).str = Str(<<"u", "2", "8", "1", "z">>)

\* Encode(48.1351, 11.5820, 8) has returned
MunichReturned ==
    EncodeReturned /\ lat = MunichLat /\ lon = MunichLon /\ precision = 8

NeighborsReturned == op = "Neighbors" /\ pc = "returned"

\* C11: for every cell Decode accepts, Neighbors returns at most 8 strings,
\* and each of them has the length of the cell (len, the number of bytes).
C11Theorem ==
    (NeighborsReturned /\ Decode(cell).err = Nil) =>
        /\ Len(ret.neighbors) <= 8
        /\ \A k \in 1..Len(ret.neighbors) : Utf8Len(ret.neighbors[k]) = Utf8Len(cell)

C11Witness ==
    /\ NeighborsReturned
    /\ cell = Str(<<"u", "2", "8", "1", "z", "d", "9", "z">>)
    /\ Len(ret.neighbors) = 8
    /\ ret.neighbors[1] = Str(<<"u", "2", "8", "1", "z", "d", "c", "b">>)

\* the string is not empty and all its characters are of the alphabet
OverAlphabet(c) == Len(c) > 0 /\ \A k \in 1..Len(c) : c[k] \in AlphabetRunes

\* the eight compass directions in the order N, S, E, W, NE, NW, SE, SW, each
\* as its steps in latitude and in longitude
Directions ==
    << <<1, 0>>, <<-1, 0>>, <<0, 1>>, <<0, -1>>,
       <<1, 1>>, <<1, -1>>, <<-1, 1>>, <<-1, -1>> >>

\* x moved by n in {-1, 0, 1} times step
Moved(x, n, step) ==
    IF n = 1 THEN Add(x, step) ELSE IF n = -1 THEN Sub(x, step) ELSE x

\* the center of cell c moved by one cell height and width in direction k
ShiftedPoint(c, k) ==
    LET d  == Decode(c)
        bb == BoundingBox(c)
    IN  [lat |-> Moved(d.lat, Directions[k][1], LatSpan(bb)),
         lon |-> Moved(d.lon, Directions[k][2], LonSpan(bb))]

\* the directions whose shifted point is a valid coordinate
InRangeDirections(c) ==
    {k \in 1..Len(Directions) :
         ValidCoord(ShiftedPoint(c, k).lat, ShiftedPoint(c, k).lon)}

\* the j-th smallest member of a set of numbers
NthOf(S, j) == CHOOSE k \in S : Cardinality({i \in S : i <= k}) = j

\* the entries are those of the directions in D, in order: there is one per
\* direction, and it is a string of the length of c whose bounding box holds
\* the shifted point of its direction
EntriesOf(c, entries, D) ==
    /\ Len(entries) = Cardinality(D)
    /\ \A j \in 1..Len(entries) :
           LET pt == ShiftedPoint(c, NthOf(D, j))
           IN  /\ Utf8Len(entries[j]) = Utf8Len(c)
               /\ InBox(pt.lat, pt.lon, BoundingBox(entries[j]))

\* C12 (as claimed): Neighbors returns an error only when the cell is empty
\* or has a character outside the alphabet; for every valid cell it returns
\* no error, and the entry of a direction is absent exactly when the shifted
\* point has its latitude outside [-90, 90] or its longitude outside
\* [-180, 180]; no direction is clamped or wrapped.
C12Claim ==
    NeighborsReturned =>
        /\ ret.err # Nil => ~OverAlphabet(cell)
        /\ OverAlphabet(cell) =>
               /\ ret.err = Nil
               /\ EntriesOf(cell, ret.neighbors, InRangeDirections(cell))

DistanceReturned == op = "Distance" /\ pc = "returned"

\* C13: Distance returns an error if and only if Decode fails on the first
\* or on the second cell; when the first cell is invalid its decode error is
\* returned whatever the second cell is; when both are valid there is no error.
C13Theorem ==
    DistanceReturned =>
        LET dA == Decode(cell)
            dB == Decode(cellB)
        IN  /\ (ret.err # Nil) <=> (dA.err # Nil \/ dB.err # Nil)
            /\ dA.err # Nil => ret.err = dA.err
            /\ (dA.err = Nil /\ dB.err = Nil) => ret.err = Nil

\* both cells are invalid, with different errors
C13Witness ==
    /\ DistanceReturned
    /\ cell = <<>>
    /\ cellB = Str(<<"a">>)
    /\ ret.err = ErrEmpty

PrecisionReturned == op = "PrecisionForRadius" /\ pc = "returned"

\* the cell sizes in kilometres as the claims list them, by precision
ClaimedSizeKm ==
    << Km(5000, 0), Km(1250, 0), Km(156, 0), Km(39, 0), Km(4, 900000),
       Km(1, 200000), Km(0, 150000), Km(0, 38000), Km(0, 4700), Km(0, 1200),
       Km(0, 150), Km(0, 37) >>

\* C14: PrecisionForRadius returns the precision of the first entry of the
\* table, in its order, with radiusKm >= sizeKm, and 12 when there is none;
\* the result is in 1..12; it is 1 for 5000 and 12 for 0.00001.
C14Theorem ==
    PrecisionReturned =>
        /\ ret.precision \in 1..12
        /\ \/ /\ GeKm(radiusKm, ClaimedSizeKm[ret.precision])
              /\ \A j \in 1..(ret.precision - 1) : ~GeKm(radiusKm, ClaimedSizeKm[j])
           \/ /\ \A j \in 1..12 : ~GeKm(radiusKm, ClaimedSizeKm[j])
              /\ ret.precision = 12
        /\ radiusKm = Km(5000, 0) => ret.precision = 1
        /\ radiusKm = Km(0, 10) => ret.precision = 12

C14Witness ==
    /\ PrecisionReturned
    /\ radiusKm = Km(5000, 0)
    /\ ret.precision = 1

\* the least of a set of numbers that is not empty
Least(S) == CHOOSE k \in S : \A j \in S : k <= j

\* C15 (as claimed): PrecisionForRadius returns the coarsest precision whose
\* cell size in the table is greater than or equal to the radius.
C15Claim ==
    PrecisionReturned =>
        LET atLeast == {p \in 1..12 : GeKm(ClaimedSizeKm[p], radiusKm)}
        IN  atLeast # {} => ret.precision = Least(atLeast)

\* C15: PrecisionForRadius returns the coarsest precision whose cell size in
\* the table is less than or equal to the radius, and 12 when no cell size is.
C15Theorem ==
    PrecisionReturned =>
        LET atMost == {p \in 1..12 : GeKm(radiusKm, ClaimedSizeKm[p])}
        IN  ret.precision = Least(atMost \cup {12})

\* a radius of 100 km: the sizes 5000, 1250 and 156 are above it, 39 is the
\* first below
C15Witness ==
    /\ PrecisionReturned
    /\ radiusKm = Km(100, 0)
    /\ ret.precision = 4

\* what the call of f with args returns when it runs alone
Alone(f, args) ==
    CASE f = "Encode" -> Encode(args[1], args[2], args[3])
      [] f = "Decode" -> Decode(args[1])
      [] f = "BoundingBox" -> BoundingBox(args[1])
      [] f = "Neighbors" -> Neighbors(args[1])
      [] f = "Distance" -> Distance(args[1], args[2])
      [] f = "PrecisionForRadius" -> [precision |-> PrecisionForRadius(args[1])]

\* C16: the six functions share no state: whatever the interleaving of the
\* calls of the goroutines, a call returns what it returns when run alone,
\* two calls with the same arguments return the same, and a step of one call
\* leaves the arguments, locals and result of every other call as they are.
C16Theorem ==
    /\ [](\A g \in Goroutines :
              thr[g].pc = "returned" => thr[g].ret = Alone(thr[g].op, thr[g].args))
    /\ [](\A g \in Goroutines, h \in Goroutines :
              (/\ thr[g].pc = "returned"
               /\ thr[h].pc = "returned"
               /\ thr[g].op = thr[h].op
               /\ thr[g].args = thr[h].args) => thr[g].ret = thr[h].ret)
    /\ [][\A g \in Goroutines :
              thr'[g] # thr[g] => \A h \in Goroutines \ {g} : thr'[h] = thr[h]]_vars

\* g1's Encode has returned while g2 is within the first character of its own
C16Witness ==
    /\ thr["g1"].pc = "returned"
    /\ thr["g1"].op = "Encode"
    /\ thr["g1"].ret = [str |-> Str(<<"u", "2">>), err |-> Nil]
    /\ thr["g2"].pc = "encoding"
    /\ thr["g2"].args = <<Deg(0), Deg(0), 1>>
    /\ thr["g2"].enc.bits = 3

\* C17: nothing guards the cache of the enricher: a goroutine that is about
\* to read the map in Enrich, to write it in Enrich or to replace it in
\* ClearCache can always do so, whatever the other goroutines are doing; so
\* two Enrich calls on an enricher with the cache enabled reach a state in
\* which both are in the map and one of them writes (C17Witness).
C17Theorem ==
    Running =>
        \A g \in Goroutines :
            /\ enr[g].pc = "lookup" => ENABLED BeginCacheRead(g)
            /\ enr[g].pc = "store" => ENABLED BeginCacheWrite(g)
            /\ enr[g].pc = "idle" => ENABLED ClearCache(g)

\* both goroutines are in Enrich and in the map of le, g1 reading or writing
\* it while g2 writes it
C17Witness ==
    /\ Running
    /\ le.cacheEnabled
    /\ enr["g1"].op = "Enrich"
    /\ enr["g2"].op = "Enrich"
    /\ MapRace("g1", "g2")

\* |a - b|
AbsDiff(a, b) == IF Gt(a, b) THEN Sub(a, b) ELSE Sub(b, a)

\* 0.001 degree, cut to 2^-40 degree
MilliDegree == F(1048, 603979)

\* C18: for valid arguments the point lies in the closed bounding box of the
\* string Encode returns, and Decode of that string is off the point by at
\* most half the height of the box in latitude and half its width in
\* longitude; at precision 8 both are below 0.001 degree.
C18Theorem ==
    EncodeValidReturned =>
        LET bb == BoundingBox(ret.str)
            d  == Decode(ret.str)
        IN  /\ InBox(lat, lon, bb)
            /\ Leq(AbsDiff(lat, d.lat), Half(LatSpan(bb)))
            /\ Leq(AbsDiff(lon, d.lon), Half(LonSpan(bb)))
            /\ precision = 8 =>
                   /\ Lt(AbsDiff(lat, d.lat), MilliDegree)
                   /\ Lt(AbsDiff(lon, d.lon), MilliDegree)

\* New York at precision 8: Decode gives another point, less than 0.001
\* degree away
C18Witness ==
    /\ EncodeValidReturned
    /\ precision = 8
    /\ lat = NewYorkLat
    /\ lon = NewYorkLon
    /\ Decode(ret.str).lat # lat
    /\ Decode(ret.str).lon # lon

ParseReturned == uri.op = "ParseMemoryURI" /\ uri.pc = "returned"

\* what follows the first n characters of u
After(u, n) == [k \in 1..(Len(u) - n) |-> u[k + n]]

\* the places of "/" in s
Slashes(s) == {k \in 1..Len(s) : s[k] = "/"}

\* u starts with "memory://", and what follows holds a "/" with something
\* before the first one and something after it
WellFormed(u) ==
    LET n    == Len(MemoryScheme)
        rest == After(u, n)
    IN  /\ Len(u) >= n
        /\ \A k \in 1..n : u[k] = MemoryScheme[k]
        /\ Slashes(rest) # {}
        /\ Least(Slashes(rest)) > 1
        /\ Least(Slashes(rest)) < Len(rest)

\* C19: ParseMemoryURI succeeds if and only if the uri starts with
\* "memory://" and the remainder has a "/" with a non-empty part before the
\* first "/" and a non-empty part after it; then ContextID is the part before
\* the first "/" and MemoryID all that follows it; otherwise it returns an
\* error and no value.
C19Theorem ==
    ParseReturned =>
        LET u     == uri.arg
            rest  == After(u, Len(MemoryScheme))
            first == Least(Slashes(rest))
        IN  /\ (uri.ret.err = NoError) <=> WellFormed(u)
            /\ WellFormed(u) =>
                   /\ ~uri.ret.uri.nil
                   /\ uri.ret.uri.ContextID = [k \in 1..(first - 1) |-> rest[k]]
                   /\ uri.ret.uri.MemoryID = After(rest, first)
            /\ ~WellFormed(u) => uri.ret.uri.nil

\* "memory://a/b/": the memory id is "b/", all that follows the first "/"
C19Witness ==
    /\ ParseReturned
    /\ uri.arg = MemoryScheme \o <<"a", "/", "b", "/">>
    /\ uri.ret.err = NoError
    /\ uri.ret.uri.ContextID = <<"a">>
    /\ uri.ret.uri.MemoryID = <<"b", "/">>

ServeReturned == uri.op = "HandleParseURIs" /\ uri.pc = "returned"

\* C20 (as claimed): in an answer of the parse-uris endpoint every memory is
\* one of the URIs of the delimited input that are valid, the invalid ones
\* being passed over, and no memory id occurs twice in unique_ids.
C20Claim ==
    (ServeReturned /\ uri.ret.status = 200) =>
        LET parts == Split(uri.arg.uri_string, GraphFieldSep)
            ids   == uri.ret.unique_ids
        IN  /\ \A i \in 1..Len(uri.ret.memories) :
                   /\ WellFormed(uri.ret.memories[i].memory_uri)
                   /\ \E k \in 1..Len(parts) :
                          TrimSpace(parts[k]) = uri.ret.memories[i].memory_uri
            /\ \A k \in 1..Len(parts) :
                   WellFormed(TrimSpace(parts[k])) =>
                       \E i \in 1..Len(uri.ret.memories) :
                           uri.ret.memories[i].memory_uri = TrimSpace(parts[k])
            /\ \A i \in 1..Len(ids), j \in 1..Len(ids) : i # j => ids[i] # ids[j]

\* the unit vector of the point (la, lo) of the sphere, the degrees as radians
UnitVector(la, lo) ==
    LET phi    == degToRad(la)
        lambda == degToRad(lo)
    IN  <<QMul(Cos(phi), Cos(lambda)), QMul(Cos(phi), Sin(lambda)), Sin(phi)>>

\* the square of the chord between two points of the unit sphere
ChordSquare(lat1, lon1, lat2, lon2) ==
    LET p == UnitVector(lat1, lon1)
        q == UnitVector(lat2, lon2)
    IN  QMul(p[1] - q[1], p[1] - q[1]) + QMul(p[2] - q[2], p[2] - q[2])
        + QMul(p[3] - q[3], p[3] - q[3])

\* half the angle of an arc of km kilometres on the sphere of radius 6371 km:
\* km / 12742, with 2^28 / 12742 taken as 21067
HalfAngle(km) == km.k * 21067 + ((km.u \div 100) * 21067) \div 10000

\* what the chord of an arc and the chord of two points may differ by when the
\* arc is the great-circle distance of the points: 2^-15
ChordTolerance == QOne \div 32768

\* the arc of km kilometres spans the chord between the two points: the chord
\* of an angle t is 2 sin(t/2)
GreatCircle(km, lat1, lon1, lat2, lon2) ==
    LET s == Sin(HalfAngle(km))
        d == 4 * QMul(s, s) - ChordSquare(lat1, lon1, lat2, lon2)
    IN  d <= ChordTolerance /\ -d <= ChordTolerance

\* km is within 10 km of n km
Within10(km, n) == GeKm(km, Km(n - 10, 0)) /\ GeKm(Km(n + 10, 0), km)

ZurichCell == Str(<<"u", "0", "q", "j", "5", "v", "2", "k">>)

BerlinCell == Str(<<"u", "3", "3", "d", "b", "3", "g", "z">>)

DistanceValidReturned == DistanceReturned /\ ret.err = Nil

\* C21 (as claimed): Distance is the great-circle distance on the sphere of
\* radius 6371 km between the centers Decode gives for the two cells, it is
\* not negative, and Distance("u0qj5v2k", "u33db3gz") is within 10 km of 504.
C21Claim ==
    DistanceValidReturned =>
        LET dA == Decode(cell)
            dB == Decode(cellB)
        IN  /\ GeKm(ret.km, Km(0, 0))
            /\ GreatCircle(ret.km, dA.lat, dA.lon, dB.lat, dB.lon)
            /\ (cell = ZurichCell /\ cellB = BerlinCell) => Within10(ret.km, 504)

RECURSIVE StandardRange(_, _, _)
\* the range left of `full` after n bisections towards coord in the standard
\* encoding: the upper half is taken when coord is at or above the midpoint
StandardRange(coord, full, n) ==
    IF n = 0 THEN full
    ELSE LET r   == StandardRange(coord, full, n - 1)
             mid == Half(Add(r[1], r[2]))
         IN  IF Gt(coord, mid) \/ coord = mid THEN <<mid, r[2]>> ELSE <<r[1], mid>>

\* bit k (from 0) of the standard encoding of (la, lo)
StandardBit(la, lo, k) ==
    LET r   == IF k % 2 = 0 THEN StandardRange(lo, FullLon, k \div 2)
                            ELSE StandardRange(la, FullLat, k \div 2)
        c   == IF k % 2 = 0 THEN lo ELSE la
        mid == Half(Add(r[1], r[2]))
    IN  IF Gt(c, mid) \/ c = mid THEN 1 ELSE 0

\* the standard geohash of (la, lo) with p characters
StandardEncode(la, lo, p) ==
    [j \in 1..p |->
         base32[16 * StandardBit(la, lo, 5 * j - 5) + 8 * StandardBit(la, lo, 5 * j - 4)
                + 4 * StandardBit(la, lo, 5 * j - 3) + 2 * StandardBit(la, lo, 5 * j - 2)
                + StandardBit(la, lo, 5 * j - 1) + 1]]

\* one of the first n bisections towards coord has coord as its midpoint
MeetsMidpoint(coord, full, n) ==
    \E k \in 0..(n - 1) :
        LET r == RefRange(coord, full, k)
        IN  coord = Half(Add(r[1], r[2]))

\* a bisection of Encode(la, lo, p) meets a coordinate equal to the midpoint:
\* of the 5p bits the longitude has the even ones, the latitude the odd ones
HitsTie(la, lo, p) ==
    \/ MeetsMidpoint(lo, FullLon, (5 * p + 1) \div 2)
    \/ MeetsMidpoint(la, FullLat, (5 * p) \div 2)

\* C22: for valid arguments with no bisection that meets a coordinate equal
\* to the midpoint, Encode returns the standard geohash, the one that takes the
\* upper half at or above the midpoint; the two differ only when there is such
\* a tie; Encode(40.7128, -74.0060, 8) is "dr5regw3".
C22Theorem ==
    EncodeValidReturned =>
        /\ ~HitsTie(lat, lon, precision) =>
               ret.str = StandardEncode(lat, lon, precision)
        /\ ret.str # StandardEncode(lat, lon, precision) =>
               HitsTie(lat, lon, precision)
        /\ (lat = NewYorkLat /\ lon = NewYorkLon /\ precision = 8) =>
               ret.str = Str(<<"d", "r", "5", "r", "e", "g", "w", "3">>)

\* New York at precision 8: no bisection meets a midpoint
C22Witness ==
    /\ EncodeValidReturned
    /\ lat = NewYorkLat
    /\ lon = NewYorkLon
    /\ precision = 8
    /\ ~HitsTie(lat, lon, precision)
    /\ ret.str = Str(<<"d", "r", "5", "r", "e", "g", "w", "3">>)

\* C23: for every string c of 1 to 12 characters of the alphabet, Encode of
\* the point Decode(c) at precision len(c) succeeds and returns c.
C23Theorem ==
    (DecodeReturned /\ OverAlphabet(cell) /\ Len(cell) <= 12) =>
        /\ ret.err = Nil
        /\ Encode(ret.lat, ret.lon, Len(cell)) = [str |-> cell, err |-> Nil]

\* a cell of 12 characters: its center encodes to it
C23Witness ==
    /\ DecodeReturned
    /\ cell = Str(<<"u", "2", "8", "1", "z", "d", "9", "z", "2", "0", "v", "p">>)
    /\ ret.err = Nil
    /\ Encode(ret.lat, ret.lon, 12).str = cell

\* the box bb moved by its height times dir[1] and its width times dir[2]
ShiftedBox(bb, dir) ==
    [minLat |-> Moved(bb.minLat, dir[1], LatSpan(bb)),
     maxLat |-> Moved(bb.maxLat, dir[1], LatSpan(bb)),
     minLon |-> Moved(bb.minLon, dir[2], LonSpan(bb)),
     maxLon |-> Moved(bb.maxLon, dir[2], LonSpan(bb)),
     err |-> Nil]

\* the edges of the world rectangle the box touches
EdgesTouched(bb) ==
    {e \in {"north", "south", "east", "west"} :
         \/ e = "north" /\ bb.maxLat = Deg(90)
         \/ e = "south" /\ bb.minLat = Deg(-90)
         \/ e = "east" /\ bb.maxLon = Deg(180)
         \/ e = "west" /\ bb.minLon = Deg(-180)}

\* the directions that do not lead over an edge the box touches
OpenDirections(bb) ==
    {k \in 1..Len(Directions) :
         /\ Directions[k][1] = 1 => "north" \notin EdgesTouched(bb)
         /\ Directions[k][1] = -1 => "south" \notin EdgesTouched(bb)
         /\ Directions[k][2] = 1 => "east" \notin EdgesTouched(bb)
         /\ Directions[k][2] = -1 => "west" \notin EdgesTouched(bb)}

\* C24: for a valid cell of 1 to 12 characters Neighbors returns its entries
\* in the order N, S, E, W, NE, NW, SE, SW, the omitted ones passed over; the
\* box of each entry is the box of the cell moved by one height and/or one
\* width in its direction; the entries differ from each other and from the
\* cell; there are 8 of them when the box touches no edge of the world, 5
\* when it touches one edge and 3 when it touches two.
C24Theorem ==
    (NeighborsReturned /\ OverAlphabet(cell) /\ Len(cell) <= 12) =>
        LET bb   == BoundingBox(cell)
            open == OpenDirections(bb)
            n    == Len(ret.neighbors)
        IN  /\ ret.err = Nil
            /\ n = Cardinality(open)
            /\ \A j \in 1..n :
                   BoundingBox(ret.neighbors[j]) =
                       ShiftedBox(bb, Directions[NthOf(open, j)])
            /\ \A i \in 1..n, j \in 1..n : i # j => ret.neighbors[i] # ret.neighbors[j]
            /\ \A j \in 1..n : ret.neighbors[j] # cell
            /\ Cardinality(EdgesTouched(bb)) = 0 => n = 8
            /\ Cardinality(EdgesTouched(bb)) = 1 => n = 5
            /\ Cardinality(EdgesTouched(bb)) = 2 => n = 3

\* the cell "u" on the north edge: S, E, W, SE and SW are left
C24Witness ==
    /\ NeighborsReturned
    /\ cell = Str(<<"u">>)
    /\ EdgesTouched(BoundingBox(cell)) = {"north"}
    /\ ret.neighbors = <<Str(<<"s">>), Str(<<"v">>), Str(<<"g">>),
                         Str(<<"t">>), Str(<<"e">>)>>

\* Decode or BoundingBox has returned
WalkReturned == op \in {"Decode", "BoundingBox"} /\ pc = "returned"

\* the error of the Encode call Neighbors makes for direction k of cell c
ReEncodeError(c, k) ==
    Encode(ShiftedPoint(c, k).lat, ShiftedPoint(c, k).lon, Utf8Len(c)).err

\* C25 (as claimed): Decode and BoundingBox succeed on every non-empty string
\* over the alphabet, whatever its length; for such a string of more than 12
\* characters Neighbors returns an empty list and no error, every Encode call
\* it makes being rejected as an invalid precision.
C25Claim ==
    /\ (WalkReturned /\ OverAlphabet(cell)) => ret.err = Nil
    /\ (NeighborsReturned /\ OverAlphabet(cell) /\ Len(cell) > 12) =>
           /\ ret = [neighbors |-> <<>>, err |-> Nil]
           /\ \A k \in 1..Len(Directions) :
                  ReEncodeError(cell, k) = ErrInvalidPrecision

\* C25: Decode and BoundingBox succeed on every non-empty string over the
\* alphabet, whatever its length; for such a string of more than 12
\* characters Neighbors returns an empty list and no error, every Encode call
\* it makes being rejected: as an invalid precision when the shifted point is
\* within range, as an invalid latitude or longitude when it is not.
C25Theorem ==
    /\ (WalkReturned /\ OverAlphabet(cell)) => ret.err = Nil
    /\ (NeighborsReturned /\ OverAlphabet(cell) /\ Len(cell) > 12) =>
           /\ ret = [neighbors |-> <<>>, err |-> Nil]
           /\ \A k \in 1..Len(Directions) :
                  IF k \in InRangeDirections(cell)
                  THEN ReEncodeError(cell, k) = ErrInvalidPrecision
                  ELSE ReEncodeError(cell, k) \in {ErrInvalidLatitude, ErrInvalidLongitude}

\* the cell of 13 times "z": Decode accepts it, Neighbors returns nothing
C25Witness ==
    /\ NeighborsReturned
    /\ Len(cell) = 13
    /\ OverAlphabet(cell)
    /\ Decode(cell).err = Nil
    /\ InRangeDirections(cell) = {2, 4, 8}
    /\ ret = [neighbors |-> <<>>, err |-> Nil]


\* g has returned from Enrich
EnrichReturned(g) == enr[g].pc = "returned" /\ enr[g].op = "Enrich"

\* C26: after any sequence of Enrich and ClearCache calls on one enricher,
\* with the cache enabled or not, every successful Enrich(lat, lon,
\* precision) returns a result whose Latitude and Longitude are the arguments
\* and whose Geohash is Encode(lat, lon, precision), and every Enrich with a
\* precision outside 1..12 returns an error.
C26Claim ==
    \A g \in Goroutines :
        EnrichReturned(g) =>
            /\ enr[g].ret.err = Nil =>
                   /\ enr[g].ret.location.Latitude = enr[g].lat
                   /\ enr[g].ret.location.Longitude = enr[g].lon
                   /\ enr[g].ret.location.Geohash
                          = Encode(enr[g].lat, enr[g].lon, enr[g].precision).str
            /\ enr[g].precision \notin MinPrecision..MaxPrecision =>
                   enr[g].ret.err # Nil

\* g returns from Enrich in this step
EnrichReturns(g) ==
    /\ enr[g].op = "Enrich" \/ enr[g].pc = "idle"
    /\ enr[g].pc # "returned"
    /\ enr'[g].pc = "returned"
    /\ enr'[g].op = "Enrich"

\* the key of g's call: lat and lon to six decimals with a comma between
SixDecimalKey(g) == Sprintf6(enr'[g].lat) \o <<",">> \o Sprintf6(enr'[g].lon)

\* the cache after the step is the one before with the result g returns
\* under the key of g's call, and nothing else changed
OneEntryStored(g) ==
    /\ DOMAIN le'.cache = DOMAIN le.cache \cup {SixDecimalKey(g)}
    /\ le'.cache[SixDecimalKey(g)] = enr'[g].ret.location
    /\ \A k \in DOMAIN le.cache : k # SixDecimalKey(g) => le'.cache[k] = le.cache[k]

\* what a step of the enricher does to the cache
CacheStep ==
    /\ \A g \in Goroutines :
           EnrichReturns(g) =>
               IF enr'[g].ret.err # Nil \/ enr[g].pc = "reading" \/ ~le.cacheEnabled
               THEN le'.cache = le.cache
               ELSE enr[g].stale \/ OneEntryStored(g)
    /\ le'.cache # le.cache =>
           \/ \E g \in Goroutines :
                  /\ EnrichReturns(g)
                  /\ enr'[g].ret.err = Nil
                  /\ le.cacheEnabled
                  /\ OneEntryStored(g)
           \/ \E g \in Goroutines : ClearCache(g)
    /\ \A g \in Goroutines : ClearCache(g) => Cardinality(DOMAIN le'.cache) = 0
    /\ ~le'.cacheEnabled => Cardinality(DOMAIN le'.cache) = 0
    /\ \A g \in Goroutines :
           (enr'[g].pc = "returned" /\ enr'[g].op = "GetCacheStats"
               /\ ~le'.cacheEnabled) => enr'[g].ret.size = 0

\* C27: Enrich changes the cache only in a successful call with the cache
\* enabled, where it stores one entry, the result it returns, under the key
\* made of lat and lon formatted to six decimals (unless ClearCache replaced
\* the map during the write); a call that fails and a call that hits the
\* cache leave it unchanged; with the cache disabled the cache stays empty
\* and GetCacheStats reports the size 0; after ClearCache the size is 0.
C27Theorem == [][CacheStep]_vars

\* g1 has stored its result as the only entry of the cache, and g2 has
\* returned from a call that failed on its precision
C27Witness ==
    /\ le.cacheEnabled
    /\ DOMAIN le.cache = {CacheKey(MunichLat, MunichLon)}
    /\ enr["g1"].pc = "returned"
    /\ enr["g1"].op = "Enrich"
    /\ enr["g1"].ret.err = Nil
    /\ enr["g1"].ret.location = le.cache[CacheKey(MunichLat, MunichLon)]
    /\ enr["g2"].pc = "returned"
    /\ enr["g2"].op = "Enrich"
    /\ enr["g2"].precision = MaxPrecisionArg
    /\ enr["g2"].ret.err # Nil

\* doRequestWithRetry has returned
ClientReturned == client.pc = "returned"

\* the status is 2xx
Success2xx(StatusCode) == 200 <= StatusCode /\ StatusCode <= 299

\* the status is 4xx
Status4xx(StatusCode) == 400 <= StatusCode /\ StatusCode <= 499

\* at most maxRetries + 1 requests have been sent when maxRetries >= 0
SentBounded == client.maxRetries >= 0 => client.sent <= client.maxRetries + 1

\* nil is returned only after a 2xx response
NilOnly2xx ==
    (ClientReturned /\ client.ret = NoError) =>
        client.read /\ Success2xx(client.StatusCode)

\* C28, as the claim has it: doRequestWithRetry sends at most maxRetries + 1
\* requests for maxRetries >= 0, returns nil only if an attempt received a 2xx
\* response, and stops with success at the first 2xx response whose body is
\* read.
C28Claim ==
    /\ SentBounded
    /\ NilOnly2xx
    /\ (ClientReturned /\ client.read) => client.ret = NoError

\* what a step of doRequestWithRetry does
RetryStep ==
    /\ client'.sent > client.sent =>
           /\ client'.sent = client.sent + 1
           /\ ~client.read
           /\ client.maxRetries >= 0 => client.attempt <= client.maxRetries
    /\ (client.pc = "status" /\ Status4xx(client.StatusCode)) =>
           /\ client'.pc = "returned"
           /\ client'.ret.format = "API returned status %d: %s"
           /\ client'.ret.arg = <<client.StatusCode>>
    /\ \/ client.pc = "do" /\ client'.pc # "status"
       \/ client.pc = "read" /\ ~client'.read
       \/ /\ client.pc = "status"
          /\ ~Success2xx(client.StatusCode)
          /\ ~Status4xx(client.StatusCode)
       => /\ client'.pc = "loop"
          /\ client'.attempt = client.attempt + 1
          /\ client'.lastErr # NoError
    /\ client.pc = "loop" =>
           IF client.attempt <= client.maxRetries
           THEN client'.pc = "prepare"
           ELSE /\ client'.pc = "returned"
                /\ client'.ret.format = "request failed after %d retries: %w"
                /\ client.maxRetries >= 0 =>
                       /\ client.sent = client.maxRetries + 1
                       /\ client'.ret.arg[2] # NoError
    /\ client.pc = "unmarshal" =>
           /\ client'.pc = "returned"
           /\ client'.ret = IF client.result /\ ~client.body
                            THEN Errorf("failed to unmarshal response: %w", <<>>)
                            ELSE NoError

\* C28: doRequestWithRetry always terminates and, for maxRetries >= 0, sends
\* at most maxRetries + 1 requests: it stops at the first 2xx response whose
\* body is read, with success unless a result is wanted and the body does not
\* unmarshal into it, which is an error returned at once; it returns the
\* error at once on a 4xx response, tries again after a transport error, a
\* body-read error or any other non-2xx status, and returns an error once all
\* maxRetries + 1 attempts have failed; it returns nil only if an attempt
\* received a 2xx response.
C28Theorem ==
    /\ [](SentBounded /\ NilOnly2xx)
    /\ [][RetryStep]_vars
    /\ (client.pc \notin {"idle", "returned"}) ~> ClientReturned

\* the third attempt, after a transport error and a 503, got a 200 whose
\* body was read: nil is returned after maxRetries + 1 = 3 requests
C28Witness ==
    /\ ClientReturned
    /\ client.maxRetries = 2
    /\ client.sent = 3
    /\ client.attempt = 2
    /\ client.read
    /\ client.StatusCode = 200
    /\ client.ret = NoError
    /\ client.slept = 3

\* Validate has returned
ValidateReturned == cc.pc = "returned"

\* C29: after Validate returns nil, Ingestion.QueryLimit is within 1..1000
\* and Ingestion.MaxConcurrency within 1..50, as the validate tags of the
\* fields declare; when Validate returns an error the configuration is as it
\* was before the call.
C29Claim ==
    ValidateReturned =>
        IF cc.ret = NoError
        THEN /\ cc.c.Ingestion.QueryLimit \in 1..1000
             /\ cc.c.Ingestion.MaxConcurrency \in 1..50
        ELSE cc.c = cc.before

\* C30: building and parsing a memory URI round-trips: for every non-empty
\* context_id and memory_id, ParseMemoryURI of BuildMemoryURI(context_id,
\* memory_id) succeeds and returns that context_id and memory_id; and for
\* every uri ParseMemoryURI accepts, BuildMemoryURI of the parsed components
\* is uri.
C30Claim ==
    /\ (uri.pc = "returned" /\ uri.op = "BuildMemoryURI"
            /\ uri.arg[1] # <<>> /\ uri.arg[2] # <<>>) =>
           ParseMemoryURI(uri.ret.str)
               = [uri |-> MemoryURI(uri.arg[1], uri.arg[2]), err |-> NoError]
    /\ (uri.pc = "returned" /\ uri.op = "ParseMemoryURI"
            /\ uri.ret.err = NoError) =>
           BuildMemoryURI(uri.ret.uri.ContextID, uri.ret.uri.MemoryID) = uri.arg

====
